---- MODULE Spec2Model ----
(***************************************************************************)
(* Edge request authenticator of cloudfront-lambda-edge-lab.               *)
(*                                                                         *)
(* One process instance runs exactly one of three programs:                *)
(*   "edge" : src/lambda-edge/index.js            (HMAC, Secrets Manager)  *)
(*   "cff"  : src/cloudfront-function/bot-validator.js (HMAC, KeyValueStore)*)
(*   "aes"  : src/unnamed/part_000 lines 1-211    (AES-256-GCM envelope)   *)
(* The module-level variables cachedSecret / cacheExpiry belong to that    *)
(* instance.  Handlers are async functions: they are split at their awaits.*)
(***************************************************************************)
EXTENDS Integers, Sequences, FiniteSets, TLC

VARIABLES
    program,       \* which of the three source files this instance runs
    kvsHandle,     \* cff: "handle" or "undefined" (cf.kvs threw at load time)
    clock,         \* Date.now(), milliseconds
    ticks,         \* number of clock advances so far (bounds the exploration)
    cachedSecret,  \* module-level `let cachedSecret`
    cacheExpiry,   \* module-level `let cacheExpiry`
    pc,            \* per evaluation: "idle", "fetching", "kvs", "resume", "done"
    request,       \* per evaluation: the request object (its headers)
    now,           \* per evaluation: getSecret's local `now`
    response,      \* per evaluation: what the remote provider answered
    secretKey,     \* per evaluation: completion of `await getSecret()` / kvs get
    curTs,         \* per evaluation: the handler's local currentTimestamp
    fetches,       \* per evaluation: remote fetches this evaluation has issued
    result,        \* per evaluation: what the handler returned (or that it threw)
    compare        \* the frame of a constantTimeCompare call followed step by step

vars == <<program, kvsHandle, clock, ticks, cachedSecret, cacheExpiry, pc,
          request, now, response, secretKey, curTs, fetches, result, compare>>

(***************************************************************************)
(* Program constants                                                       *)
(***************************************************************************)
TIMESTAMP_TOLERANCE == 300

CACHE_TTL == 5 * 60 * 1000

NONCE_BYTES == 12

TAG_BYTES == 16

KEY_BYTES == 32

DIGEST_BYTES == 32

(***************************************************************************)
(* Bounds of the exploration                                               *)
(***************************************************************************)
\* Number of clock advances in one behaviour.
MaxTicks == 2

\* The clock starts at 1000 s; it advances by one second or by just under
\* the TTL, so that every window and expiry boundary is crossed exactly.
StartClock == 1000 * 1000

TickSteps == {1000, 299000}

\* Evaluation slots of the instance (an evaluation is one handler invocation).
Evals == {1, 2}

(***************************************************************************)
(* JavaScript values                                                       *)
(***************************************************************************)
Undefined == [t |-> "undefined"]

JNull == [t |-> "null"]

JBool(b) == [t |-> "boolean", b |-> b]

\* A number, held in thousandths so that a fractional ts can be told apart.
JNum(m) == [t |-> "number", milli |-> m]

JStr(s) == [t |-> "string", s |-> s]

JObj(f) == [t |-> "object", fields |-> f]

JArr(a) == [t |-> "array", items |-> a]

\* The completion of a call that threw.
Thrown(name) == [t |-> "throw", error |-> name]

IsThrown(v) == v.t = "throw"

IsString(v) == v.t = "string"

\* ToBoolean: the values the `!x` and `x && y` tests treat as false.
Falsy(v) ==
    \/ v.t \in {"undefined", "null"}
    \/ v.t = "string" /\ v.s = ""
    \/ v.t = "number" /\ ("nan" \in DOMAIN v \/ v.milli = 0)
    \/ v.t = "boolean" /\ ~v.b

Truthy(v) == ~Falsy(v)

(***************************************************************************)
(* Characters, character codes, bit operations                             *)
(***************************************************************************)
Ch(s, i) == IF i >= 1 /\ i <= Len(s) THEN SubSeq(s, i, i) ELSE ""

\* Printable ASCII in code order: codes 32 .. 95 and 97 .. 126 (code 96, the
\* backquote, cannot be written in a TLA+ string and occurs in no input).
AsciiLow ==
    " !\"#$%&'()*+,-./0123456789:;<=>?@ABCDEFGHIJKLMNOPQRSTUVWXYZ[\\]^_"

AsciiHigh == "abcdefghijklmnopqrstuvwxyz{|}~"

CharCodeTable ==
    [c \in {Ch(AsciiLow, i) : i \in 1..Len(AsciiLow)} |->
        31 + CHOOSE i \in 1..Len(AsciiLow) : Ch(AsciiLow, i) = c]
    @@
    [c \in {Ch(AsciiHigh, i) : i \in 1..Len(AsciiHigh)} |->
        96 + CHOOSE i \in 1..Len(AsciiHigh) : Ch(AsciiHigh, i) = c]

\* String.fromCharCode for the codes above
CharOfCode(n) ==
    IF n >= 32 /\ n <= 95 THEN Ch(AsciiLow, n - 31)
    ELSE IF n >= 97 /\ n <= 126 THEN Ch(AsciiHigh, n - 96)
    ELSE "?"

\* String.prototype.charCodeAt
charCodeAt(s, i) == CharCodeTable[Ch(s, i)]

RECURSIVE BitXor(_, _)
BitXor(a, b) ==
    IF a = 0 THEN b
    ELSE IF b = 0 THEN a
    ELSE (((a % 2) + (b % 2)) % 2) + 2 * BitXor(a \div 2, b \div 2)

RECURSIVE BitOr(_, _)
BitOr(a, b) ==
    IF a = 0 THEN b
    ELSE IF b = 0 THEN a
    ELSE (IF (a % 2) = 1 \/ (b % 2) = 1 THEN 1 ELSE 0)
         + 2 * BitOr(a \div 2, b \div 2)

Abs(x) == IF x < 0 THEN -x ELSE x

(***************************************************************************)
(* parseInt(string, 10)                                                    *)
(***************************************************************************)
Digits == {"0", "1", "2", "3", "4", "5", "6", "7", "8", "9"}

DigitValue(c) == charCodeAt(c, 1) - 48

NaN == [t |-> "number", nan |-> TRUE]

IsNaN(v) == "nan" \in DOMAIN v

WhiteSpace == {" "}

RECURSIVE SkipWs(_, _)
SkipWs(s, i) == IF Ch(s, i) \in WhiteSpace THEN SkipWs(s, i + 1) ELSE i

\* The longest run of decimal digits of s from position i on, as a number;
\* acc is the value of the digits read so far.
RECURSIVE DigitRun(_, _, _)
DigitRun(s, i, acc) ==
    IF Ch(s, i) \in Digits
    THEN DigitRun(s, i + 1, 10 * acc + DigitValue(Ch(s, i)))
    ELSE [val |-> acc, pos |-> i]

\* parseInt(s, 10): leading white space, an optional sign, then the longest
\* prefix of decimal digits; NaN when there is no digit.  What follows the
\* digits is ignored.
parseInt(s) ==
    LET i == SkipWs(s, 1)
        neg == Ch(s, i) = "-"
        j == IF Ch(s, i) \in {"-", "+"} THEN i + 1 ELSE i
        r == DigitRun(s, j, 0)
    IN  IF r.pos = j THEN NaN
        ELSE JNum(1000 * (IF neg THEN -r.val ELSE r.val))

\* Math.floor(Date.now() / 1000)
FloorSeconds(ms) == ms \div 1000

(***************************************************************************)
(* JSON.parse, for JSON text without escape sequences and exponents        *)
(***************************************************************************)
SyntaxError == Thrown("SyntaxError")

TypeError == Thrown("TypeError")

Fail == [ok |-> FALSE]

\* j holds the closing quote of the string whose first character is at i
\* (a backslash is not accepted: no input carries one).
ClosesString(s, i, j) ==
    /\ Ch(s, j) = "\""
    /\ \A k \in i..(j - 1) : Ch(s, k) \notin {"\"", "\\"}

\* Position of the closing quote of a string whose first character is at i,
\* 0 when there is none.
StringEnd(s, i) ==
    IF \E j \in i..Len(s) : ClosesString(s, i, j)
    THEN CHOOSE j \in i..Len(s) : ClosesString(s, i, j)
    ELSE 0

\* The string literal whose opening quote is at i and closing quote at e.
StringLiteral(s, i, e) ==
    IF Ch(s, i) # "\"" \/ e = 0 THEN Fail
    ELSE [ok |-> TRUE, val |-> JStr(SubSeq(s, i + 1, e - 1)), pos |-> e + 1]

ParseString(s, i) == StringLiteral(s, i, StringEnd(s, i + 1))

\* -? int frac? : the number whose integer digits ip start at j, with at most
\* three fraction digits kept exactly.
NumberLiteral(s, neg, j, ip) ==
    LET hasFrac == Ch(s, ip.pos) = "."
        fp == DigitRun(s, ip.pos + 1, 0)
        nfrac == fp.pos - (ip.pos + 1)
        scale == IF nfrac = 1 THEN 100 ELSE IF nfrac = 2 THEN 10 ELSE 1
        mag == 1000 * ip.val + (IF hasFrac THEN fp.val * scale ELSE 0)
    IN  IF ip.pos = j \/ (Ch(s, j) = "0" /\ ip.pos > j + 1) THEN Fail
        ELSE IF hasFrac /\ (nfrac = 0 \/ nfrac > 3) THEN Fail
        ELSE [ok |-> TRUE, val |-> JNum(IF neg THEN -mag ELSE mag),
              pos |-> IF hasFrac THEN fp.pos ELSE ip.pos]

ParseNumber(s, i) ==
    LET neg == Ch(s, i) = "-"
        j == IF neg THEN i + 1 ELSE i
    IN  NumberLiteral(s, neg, j, DigitRun(s, j, 0))

\* The recursive-descent parser.  Each operator returns Fail or the value
\* read and the position after it.
RECURSIVE ParseValue(_, _)
RECURSIVE ParseMembers(_, _, _)
RECURSIVE MemberValue(_, _, _)
RECURSIVE MemberEnd(_, _, _, _)
RECURSIVE ParseElements(_, _, _)
RECURSIVE ElementEnd(_, _, _)

\* A JSON value starting at i.
ParseValue(s, i) ==
    IF Ch(s, i) = "{" THEN
        IF Ch(s, SkipWs(s, i + 1)) = "}"
        THEN [ok |-> TRUE, val |-> JObj(<<>>), pos |-> SkipWs(s, i + 1) + 1]
        ELSE ParseMembers(s, i + 1, <<>>)
    ELSE IF Ch(s, i) = "[" THEN
        IF Ch(s, SkipWs(s, i + 1)) = "]"
        THEN [ok |-> TRUE, val |-> JArr(<<>>), pos |-> SkipWs(s, i + 1) + 1]
        ELSE ParseElements(s, i + 1, <<>>)
    ELSE IF Ch(s, i) = "\"" THEN ParseString(s, i)
    ELSE IF Ch(s, i) \in Digits \cup {"-"} THEN ParseNumber(s, i)
    ELSE IF i + 3 <= Len(s) /\ SubSeq(s, i, i + 3) = "true"
         THEN [ok |-> TRUE, val |-> JBool(TRUE), pos |-> i + 4]
    ELSE IF i + 4 <= Len(s) /\ SubSeq(s, i, i + 4) = "false"
         THEN [ok |-> TRUE, val |-> JBool(FALSE), pos |-> i + 5]
    ELSE IF i + 3 <= Len(s) /\ SubSeq(s, i, i + 3) = "null"
         THEN [ok |-> TRUE, val |-> JNull, pos |-> i + 4]
    ELSE Fail

\* The members of an object after "{" or ",", acc holding the members read
\* so far (a repeated key keeps its last value).
ParseMembers(s, i, acc) == MemberValue(s, ParseString(s, SkipWs(s, i)), acc)

\* After the key k of a member: the colon and the member's value.
MemberValue(s, k, acc) ==
    IF ~k.ok THEN Fail
    ELSE IF Ch(s, SkipWs(s, k.pos)) # ":" THEN Fail
    ELSE MemberEnd(s, k.val.s,
                   ParseValue(s, SkipWs(s, SkipWs(s, k.pos) + 1)), acc)

\* After the value v of the member called name: "," or "}".
MemberEnd(s, name, v, acc) ==
    IF ~v.ok THEN Fail
    ELSE IF Ch(s, SkipWs(s, v.pos)) = ","
         THEN ParseMembers(s, SkipWs(s, v.pos) + 1, (name :> v.val) @@ acc)
    ELSE IF Ch(s, SkipWs(s, v.pos)) = "}"
         THEN [ok |-> TRUE, val |-> JObj((name :> v.val) @@ acc),
               pos |-> SkipWs(s, v.pos) + 1]
    ELSE Fail

\* The elements of an array after "[" or ",", acc holding the elements read
\* so far.
ParseElements(s, i, acc) == ElementEnd(s, ParseValue(s, SkipWs(s, i)), acc)

\* After the element v: "," or "]".
ElementEnd(s, v, acc) ==
    IF ~v.ok THEN Fail
    ELSE IF Ch(s, SkipWs(s, v.pos)) = ","
         THEN ParseElements(s, SkipWs(s, v.pos) + 1, Append(acc, v.val))
    ELSE IF Ch(s, SkipWs(s, v.pos)) = "]"
         THEN [ok |-> TRUE, val |-> JArr(Append(acc, v.val)),
               pos |-> SkipWs(s, v.pos) + 1]
    ELSE Fail

\* The value r read from the whole of s, when only white space follows it.
WholeText(s, r) ==
    IF r.ok /\ SkipWs(s, r.pos) = Len(s) + 1 THEN r.val ELSE SyntaxError

\* JSON.parse(text): the value, or the SyntaxError it throws.  An argument
\* that is not a string (undefined) is converted to text that is no JSON.
JSONparse(text) ==
    IF ~IsString(text) THEN SyntaxError
    ELSE WholeText(text.s, ParseValue(text.s, SkipWs(text.s, 1)))

\* obj.name : a TypeError on null and undefined, undefined on a value that
\* has no such property.
GetProp(v, name) ==
    IF v.t \in {"null", "undefined"} THEN TypeError
    ELSE IF v.t = "object" /\ name \in DOMAIN v.fields THEN v.fields[name]
    ELSE Undefined

(***************************************************************************)
(* Hex text and bytes                                                      *)
(***************************************************************************)
HexDigits == "0123456789abcdef"

HexUpper == "0123456789ABCDEF"

\* The value of each hex digit, in either case.
HexValue ==
    [c \in {Ch(HexDigits, i) : i \in 1..16} |->
        (CHOOSE i \in 1..16 : Ch(HexDigits, i) = c) - 1]
    @@
    [c \in {Ch(HexUpper, i) : i \in 11..16} |->
        (CHOOSE i \in 11..16 : Ch(HexUpper, i) = c) - 1]

\* The value of one hex digit, -1 for any other character.
Unhex(c) == IF c \in DOMAIN HexValue THEN HexValue[c] ELSE -1

\* Buffer.prototype.toString('hex') / digest('hex'): two lowercase digits
\* per byte.
RECURSIVE HexEncodeRange(_, _, _)
HexEncodeRange(bytes, lo, hi) ==
    IF lo > hi THEN ""
    ELSE IF lo = hi
    THEN Ch(HexDigits, (bytes[lo] \div 16) + 1) \o Ch(HexDigits, (bytes[lo] % 16) + 1)
    ELSE HexEncodeRange(bytes, lo, (lo + hi) \div 2)
         \o HexEncodeRange(bytes, ((lo + hi) \div 2) + 1, hi)

HexEncode(bytes) == HexEncodeRange(bytes, 1, Len(bytes))

(***************************************************************************)
(* crypto.createHmac('sha256', key).update(msg).digest('hex')              *)
(*                                                                         *)
(* SHA-256 itself is not computed.  The keyed digest below stands for it:  *)
(* a deterministic function of (key, msg) to DIGEST_BYTES bytes that has   *)
(* no collision on the keys and messages of this model.                    *)
(***************************************************************************)
\* The sum over k in lo..hi of term[k], modulo 256.
RECURSIVE SumRange(_, _, _)
SumRange(term, lo, hi) ==
    IF lo > hi THEN 0
    ELSE IF lo = hi THEN term[lo] % 256
    ELSE (SumRange(term, lo, (lo + hi) \div 2)
          + SumRange(term, ((lo + hi) \div 2) + 1, hi)) % 256

Weight(i, k, salt) == 2 * ((i * k + salt) % 64) + 1

WeightedSum(s, i, salt) ==
    SumRange([k \in 1..Len(s) |-> charCodeAt(s, k) * Weight(i, k, salt)], 1, Len(s))

DigestByte(key, msg, i) ==
    (WeightedSum(key, i, 0) + WeightedSum(msg, i, 7)
     + 31 * i + 7 * Len(key) + Len(msg)) % 256

\* The hex digest, or the TypeError createHmac throws for a key that is not
\* a string (undefined, null, a number).
createHmacDigestHex(key, msg) ==
    IF ~IsString(key) THEN TypeError
    ELSE JStr(HexEncode([i \in 1..DIGEST_BYTES |-> DigestByte(key.s, msg, i)]))

(***************************************************************************)
(* constantTimeCompare                                                     *)
(***************************************************************************)
\* A comparison that looks at the lengths only.  Soundness of scheme 1 does
\* not hold of a handler that compares this way.
LengthOnlyCompare(a, b) == Len(a) = Len(b)

\* The loop stopping one index short: `i < a.length - 1`.  Tamper rejection
\* does not hold of a handler that compares this way.
CompareButLast(a, b, lo, hi) ==
    IF \E i \in lo..(hi - 1) : charCodeAt(a, i) # charCodeAt(b, i) THEN 1 ELSE 0

\* The for loop over the indexes lo..hi (1-based here):
\* `result |= a.charCodeAt(i) ^ b.charCodeAt(i)`.  Every index is visited
\* whatever the contents; OR being associative, the value accumulated over
\* lo..hi is the OR of the values accumulated over its two halves.
RECURSIVE CompareLoop(_, _, _, _)
CompareLoop(a, b, lo, hi) ==
    IF lo > hi THEN 0
    ELSE IF lo = hi THEN BitXor(charCodeAt(a, lo), charCodeAt(b, lo))
    ELSE BitOr(CompareLoop(a, b, lo, (lo + hi) \div 2),
               CompareLoop(a, b, ((lo + hi) \div 2) + 1, hi))

constantTimeCompare(a, b) ==
    IF Len(a) # Len(b) THEN FALSE
    ELSE CompareLoop(a, b, 1, Len(a)) = 0

(***************************************************************************)
(* What a handler invocation ends with                                     *)
(***************************************************************************)
NoResult == [kind |-> "none"]

\* `return request` : the request goes on to the origin.
PassThrough(req) == [kind |-> "request", request |-> req]

\* `return { status ... }` : a generated response.
Returned(resp) == [kind |-> "response", response |-> resp]

\* The async handler's promise rejects: an exception left the handler.
Rejected(err) == [kind |-> "throw", error |-> err.error]

\* JSON.stringify({ error: message }) for a message without special characters
JSONstringifyError(message) == "{\"error\":\"" \o message \o "\"}"

\* The response object literals of the two Lambda@Edge handlers.
EdgeResponse(status, description, message) ==
    [status |-> status,
     statusDescription |-> description,
     headers |-> ("content-type" :>
                    <<[key |-> "Content-Type", value |-> JStr("application/json")]>>),
     body |-> JSONstringifyError(message)]

\* The response object literals of the CloudFront function.
CffResponse(statusCode, description, message) ==
    [statusCode |-> statusCode,
     statusDescription |-> description,
     headers |-> ("content-type" :> [value |-> JStr("application/json")]),
     body |-> [encoding |-> "text", data |-> JSONstringifyError(message)]]

\* headers[name] ? headers[name][0].value : null      (Lambda@Edge)
EdgeHeader(headers, name) ==
    IF name \in DOMAIN headers THEN headers[name][1].value ELSE JNull

\* headers[name] ? headers[name].value : null         (CloudFront function)
CffHeader(headers, name) ==
    IF name \in DOMAIN headers THEN headers[name].value ELSE JNull

\* The comparison written with `>=`: a window that excludes its boundary.
ExceedsOrMeetsTolerance(currentTimestamp, ts) ==
    /\ ~IsNaN(ts)
    /\ Abs(1000 * currentTimestamp - ts.milli) >= 1000 * TIMESTAMP_TOLERANCE

\* Math.abs(currentTimestamp - ts) > TIMESTAMP_TOLERANCE, with ts a number in
\* thousandths and currentTimestamp in whole seconds (false for NaN, as every
\* comparison with NaN is).
ExceedsTolerance(currentTimestamp, ts) ==
    /\ ~IsNaN(ts)
    /\ Abs(1000 * currentTimestamp - ts.milli) > 1000 * TIMESTAMP_TOLERANCE

(***************************************************************************)
(* src/lambda-edge/index.js : the handler after `await getSecret()`        *)
(***************************************************************************)
\* A catch block that answers an unavailable secret with 503.
EdgeServiceUnavailable ==
    Returned(EdgeResponse("503", "Service Unavailable", "Configuration error"))

EdgeConfigurationError ==
    Returned(EdgeResponse("500", "Internal Server Error", "Configuration error"))

EdgeValidate(req, key, clk) ==
    LET token == EdgeHeader(req.headers, "x-bot-token")
        signature == EdgeHeader(req.headers, "x-bot-signature")
        tokenTimestamp == parseInt(token.s)
        currentTimestamp == FloorSeconds(clk)
        expectedSignature == createHmacDigestHex(key, token.s)
    IN  IF Falsy(token) \/ Falsy(signature) THEN
            Returned(EdgeResponse("403", "Forbidden",
                "Missing required headers: X-Bot-Token and X-Bot-Signature"))
        ELSE IF \/ IsNaN(tokenTimestamp)
                \/ ExceedsTolerance(currentTimestamp, tokenTimestamp) THEN
            Returned(EdgeResponse("403", "Forbidden",
                "Token expired or invalid timestamp"))
        ELSE IF IsThrown(expectedSignature) THEN
            Rejected(expectedSignature)
        ELSE IF ~constantTimeCompare(signature.s, expectedSignature.s) THEN
            Returned(EdgeResponse("403", "Forbidden", "Invalid signature"))
        ELSE PassThrough(req)

(***************************************************************************)
(* src/cloudfront-function/bot-validator.js : the handler after            *)
(* `await kvsHandle.get('bot-secret-key')`                                 *)
(***************************************************************************)
\* A catch block that answers a failed KeyValueStore read like a missing
\* header.
CffForbiddenOnFailure ==
    Returned(CffResponse(403, "Forbidden", "Configuration error"))

CffConfigurationError ==
    Returned(CffResponse(500, "Internal Server Error", "Configuration error"))

CffValidate(req, key, clk) ==
    LET token == CffHeader(req.headers, "x-bot-token")
        signature == CffHeader(req.headers, "x-bot-signature")
        tokenTimestamp == parseInt(token.s)
        currentTimestamp == FloorSeconds(clk)
        expectedSignature == createHmacDigestHex(key, token.s)
    IN  IF Falsy(token) \/ Falsy(signature) THEN
            Returned(CffResponse(403, "Forbidden",
                "Missing required headers: X-Bot-Token and X-Bot-Signature"))
        ELSE IF \/ IsNaN(tokenTimestamp)
                \/ ExceedsTolerance(currentTimestamp, tokenTimestamp) THEN
            Returned(CffResponse(403, "Forbidden",
                "Token expired or invalid timestamp"))
        ELSE IF IsThrown(expectedSignature) THEN
            Rejected(expectedSignature)
        ELSE IF ~constantTimeCompare(signature.s, expectedSignature.s) THEN
            Returned(CffResponse(403, "Forbidden", "Invalid signature"))
        ELSE PassThrough(req)

(***************************************************************************)
(* getSecret (src/lambda-edge/index.js 21-46, src/unnamed/part_000 25-51)  *)
(***************************************************************************)
\* The field read out of the parsed SecretString.
SecretField == IF program = "aes" THEN "aesKey" ELSE "secretKey"

\* A cache test that still serves the entry at the instant of its expiry.
CacheValidAtExpiry(secret, expiry, nowMs) == Truthy(secret) /\ nowMs <= expiry

\* `if (cachedSecret && now < cacheExpiry)`
CacheValid(secret, expiry, nowMs) == Truthy(secret) /\ nowMs < expiry

\* getSecret with its failures swallowed: the secret is undefined when the
\* SecretString does not parse.
ReadSecretLenient(secretData, field) ==
    IF IsThrown(secretData) \/ secretData.t = "null" THEN Undefined
    ELSE GetProp(secretData, field)

\* `secretData.secretKey` (`secretData.aesKey`), unless JSON.parse threw.
ReadSecret(secretData, field) ==
    IF IsThrown(secretData) THEN secretData ELSE GetProp(secretData, field)

\* A catch block that clears the cache when the fetch fails.
StoreOrClear(value, nowMs, oldSecret, oldExpiry) ==
    IF IsThrown(value)
    THEN [ret |-> value, cachedSecret |-> JNull, cacheExpiry |-> 0]
    ELSE [ret |-> value, cachedSecret |-> value, cacheExpiry |-> nowMs + CACHE_TTL]

\* A getSecret that looks at the cache again once its own fetch is back and
\* returns what another call stored meanwhile.
StoreFirstWins(value, nowMs, oldSecret, oldExpiry) ==
    IF IsThrown(value) \/ (Truthy(oldSecret) /\ nowMs < oldExpiry)
    THEN [ret |-> IF IsThrown(value) THEN value ELSE oldSecret,
          cachedSecret |-> oldSecret, cacheExpiry |-> oldExpiry]
    ELSE [ret |-> value, cachedSecret |-> value, cacheExpiry |-> nowMs + CACHE_TTL]

\* A getSecret that stores its secret but never moves the expiry backwards:
\* the later of the stored expiry and its own.
StoreKeepLaterExpiry(value, nowMs, oldSecret, oldExpiry) ==
    IF IsThrown(value)
    THEN [ret |-> value, cachedSecret |-> oldSecret, cacheExpiry |-> oldExpiry]
    ELSE [ret |-> value, cachedSecret |-> value,
          cacheExpiry |-> IF oldExpiry > nowMs + CACHE_TTL THEN oldExpiry
                          ELSE nowMs + CACHE_TTL]

\* The two assignments and the return, unless something threw before them.
StoreSecret(value, nowMs, oldSecret, oldExpiry) ==
    IF IsThrown(value)
    THEN [ret |-> value, cachedSecret |-> oldSecret, cacheExpiry |-> oldExpiry]
    ELSE [ret |-> value, cachedSecret |-> value, cacheExpiry |-> nowMs + CACHE_TTL]

\* getSecret from the completion of `await secretsClient.send(command)` on:
\* what it returns or throws, and the module variables afterwards.  A
\* rejected send, a SecretString that is no JSON, and the property read on a
\* parsed null all throw before either assignment.
getSecretAfterSend(resp, field, nowMs, oldSecret, oldExpiry) ==
    StoreSecret(IF resp.kind = "reject" THEN Thrown("ProviderError")
                ELSE ReadSecret(JSONparse(resp.SecretString), field),
                nowMs, oldSecret, oldExpiry)

(***************************************************************************)
(* Buffers, String.prototype.split                                         *)
(***************************************************************************)
Buffer(bytes) == [t |-> "buffer", bytes |-> bytes]

\* Hex decoding stops, without an error, at the first pair that is not two
\* hex digits; an odd last digit is dropped.
HexDecode(s) ==
    LET pairs == Len(s) \div 2
        bad == {k \in 1..pairs :
                   Unhex(Ch(s, 2 * k - 1)) < 0 \/ Unhex(Ch(s, 2 * k)) < 0}
        n == IF bad = {} THEN pairs
             ELSE (CHOOSE k \in bad : \A m \in bad : k <= m) - 1
    IN  [k \in 1..n |-> 16 * Unhex(Ch(s, 2 * k - 1)) + Unhex(Ch(s, 2 * k))]

\* Buffer.from(value, 'hex'): a TypeError for a value that is not a string.
BufferFromHex(v) ==
    IF ~IsString(v) THEN TypeError ELSE Buffer(HexDecode(v.s))

\* s.split(':') : the fields between the colons, in order.
Split(s) ==
    LET colons == {i \in 1..Len(s) : Ch(s, i) = ":"}
        \* the position of the k-th colon; 0 and Len(s) + 1 bracket the string
        colon(k) == IF k = 0 THEN 0
                    ELSE IF k > Cardinality(colons) THEN Len(s) + 1
                    ELSE CHOOSE p \in colons :
                            Cardinality({q \in colons : q < p}) = k - 1
    IN  [k \in 1..(Cardinality(colons) + 1) |->
            SubSeq(s, colon(k - 1) + 1, colon(k) - 1)]

\* Buffer -> 'utf8' text, for bytes that are printable ASCII; any other byte
\* decodes to a replacement character, written "?" here.
RECURSIVE Utf8DecodeRange(_, _, _)
Utf8DecodeRange(bytes, lo, hi) ==
    IF lo > hi THEN ""
    ELSE IF lo = hi THEN CharOfCode(bytes[lo])
    ELSE Utf8DecodeRange(bytes, lo, (lo + hi) \div 2)
         \o Utf8DecodeRange(bytes, ((lo + hi) \div 2) + 1, hi)

Utf8Decode(bytes) == Utf8DecodeRange(bytes, 1, Len(bytes))

Utf8Encode(s) == [i \in 1..Len(s) |-> charCodeAt(s, i)]

(***************************************************************************)
(* AES-256-GCM                                                             *)
(*                                                                         *)
(* The block cipher is not computed.  What is kept of GCM: it is a stream  *)
(* cipher (ciphertext = plaintext XOR a keystream of key and nonce, so a   *)
(* flipped ciphertext bit is a flipped plaintext bit), and the tag is a    *)
(* keyed digest of nonce and ciphertext that has no collision on the       *)
(* inputs of this model; decryption releases the plaintext only when the   *)
(* supplied tag equals the computed one.                                   *)
(***************************************************************************)
KeyStream(key, nonce, i) ==
    (3 * key[((i - 1) % KEY_BYTES) + 1] + 5 * nonce[((i - 1) % NONCE_BYTES) + 1]
     + 7 * i) % 256

GcmCrypt(key, nonce, data) ==
    [i \in 1..Len(data) |-> BitXor(data[i], KeyStream(key, nonce, i))]

ByteSum(bytes, j, salt) ==
    SumRange([k \in 1..Len(bytes) |-> bytes[k] * Weight(j, k, salt)], 1, Len(bytes))

GcmTag(key, nonce, ciphertext) ==
    [j \in 1..TAG_BYTES |->
        (ByteSum(key, j, 3) + ByteSum(nonce, j, 5)
         + ByteSum(ciphertext, j, 11) + 13 * j + Len(ciphertext)) % 256]

\* Decryption that never looks at the tag (a cipher without authentication).
DecryptUnauthenticated(key, nonce, ciphertext, authTag) ==
    JStr(Utf8Decode(GcmCrypt(key, nonce, ciphertext)))

\* createDecipheriv / setAuthTag / update / final : the decrypted utf8 text,
\* or the Error final() throws when the tag does not authenticate.
GcmDecrypt(key, nonce, ciphertext, authTag) ==
    IF GcmTag(key, nonce, ciphertext) # authTag THEN Thrown("Error")
    ELSE JStr(Utf8Decode(GcmCrypt(key, nonce, ciphertext)))

(***************************************************************************)
(* src/unnamed/part_000 : decryptToken, validatePayload, the handler       *)
(***************************************************************************)
\* `return payload`, or the null of the catch block when JSON.parse threw.
PayloadOrNull(payload) ==
    IF IsThrown(payload) THEN [payload |-> JNull, created |-> TRUE]
    ELSE [payload |-> payload, created |-> TRUE]

\* After decipher.final: JSON.parse of the text, or the catch block.
ParseDecrypted(decrypted) ==
    IF IsThrown(decrypted) THEN [payload |-> JNull, created |-> TRUE]
    ELSE PayloadOrNull(JSONparse(decrypted))

\* A decryptToken that creates the decipher before it validates the sizes
\* (createDecipheriv throws on a nonce or key it cannot use).
DecipherThenSizes(nonce, ciphertext, authTag, key) ==
    IF IsThrown(key) THEN [payload |-> JNull, created |-> FALSE]
    ELSE IF Len(nonce.bytes) # NONCE_BYTES \/ Len(authTag.bytes) # TAG_BYTES
            \/ Len(key.bytes) # KEY_BYTES
         THEN [payload |-> JNull, created |-> TRUE]
    ELSE ParseDecrypted(GcmDecrypt(key.bytes, nonce.bytes, ciphertext.bytes,
                                   authTag.bytes))

\* A decryptToken without the test of key.length: a key of another size fails
\* inside crypto.createDecipheriv.
DecryptWithAnyKeyLength(nonce, ciphertext, authTag, key) ==
    IF IsThrown(key) THEN [payload |-> JNull, created |-> FALSE]
    ELSE IF Len(nonce.bytes) # NONCE_BYTES \/ Len(authTag.bytes) # TAG_BYTES
         THEN [payload |-> JNull, created |-> FALSE]
    ELSE IF Len(key.bytes) # KEY_BYTES
         THEN [payload |-> JNull, created |-> TRUE]
    ELSE ParseDecrypted(GcmDecrypt(key.bytes, nonce.bytes, ciphertext.bytes,
                                   authTag.bytes))

\* The size checks on the four buffers, then the decipher.
DecryptBuffers(nonce, ciphertext, authTag, key) ==
    IF IsThrown(key) THEN [payload |-> JNull, created |-> FALSE]
    ELSE IF Len(nonce.bytes) # NONCE_BYTES
         THEN [payload |-> JNull, created |-> FALSE]
    ELSE IF Len(authTag.bytes) # TAG_BYTES
         THEN [payload |-> JNull, created |-> FALSE]
    ELSE IF Len(key.bytes) # KEY_BYTES
         THEN [payload |-> JNull, created |-> FALSE]
    ELSE ParseDecrypted(GcmDecrypt(key.bytes, nonce.bytes, ciphertext.bytes,
                                   authTag.bytes))

\* After token.split(':').
DecryptParts(parts, keyHex) ==
    IF Len(parts) # 3 THEN [payload |-> JNull, created |-> FALSE]
    ELSE DecryptBuffers(BufferFromHex(JStr(parts[1])), BufferFromHex(JStr(parts[2])),
                        BufferFromHex(JStr(parts[3])), BufferFromHex(keyHex))

\* decryptToken(token, keyHex): the payload or null.  `created` tells
\* whether crypto.createDecipheriv was reached.
decryptTokenTrace(token, keyHex) == DecryptParts(Split(token), keyHex)

decryptToken(token, keyHex) == decryptTokenTrace(token, keyHex).payload

\* validatePayload(payload): { valid: true } or { valid: false, error }.
validatePayload(payload, clk) ==
    LET ts == GetProp(payload, "ts")
        currentTimestamp == FloorSeconds(clk)
    IN  IF Falsy(payload) \/ payload.t \notin {"object", "array"} THEN
            [valid |-> FALSE, error |-> "Invalid payload structure"]
        ELSE IF ts.t # "number" THEN
            [valid |-> FALSE, error |-> "Missing or invalid timestamp"]
        ELSE IF ExceedsTolerance(currentTimestamp, ts) THEN
            [valid |-> FALSE, error |-> "Token expired or invalid timestamp"]
        ELSE [valid |-> TRUE]

\* String(n) for a number held in thousandths.
RECURSIVE NatToString(_)
NatToString(n) ==
    IF n < 10 THEN CharOfCode(48 + n)
    ELSE NatToString(n \div 10) \o CharOfCode(48 + (n % 10))

FractionToString(f) ==
    IF f % 100 = 0 THEN NatToString(f \div 100)
    ELSE IF f % 10 = 0 THEN (IF f < 100 THEN "0" ELSE "") \o NatToString(f \div 10)
    ELSE (IF f < 10 THEN "00" ELSE IF f < 100 THEN "0" ELSE "") \o NatToString(f)

NumberToString(v) ==
    LET m == Abs(v.milli)
    IN  (IF v.milli < 0 THEN "-" ELSE "") \o NatToString(m \div 1000)
        \o (IF m % 1000 = 0 THEN "" ELSE "." \o FractionToString(m % 1000))

AesConfigurationError ==
    Returned(EdgeResponse("500", "Internal Server Error", "Configuration error"))

\* A handler that replaces request.headers by an object holding just the two
\* validated headers.
OnlyValidatedHeaders(req, payload) ==
    [req EXCEPT !.headers =
        ("x-validated-device" :>
            <<[key |-> "X-Validated-Device",
               value |-> IF Truthy(GetProp(payload, "device"))
                         THEN GetProp(payload, "device") ELSE JStr("unknown")]>>)
        @@ ("x-validated-timestamp" :>
            <<[key |-> "X-Validated-Timestamp",
               value |-> JStr(NumberToString(GetProp(payload, "ts")))]>>)]

\* Assignments that set a validated header only where the request has none.
KeepClientHeaders(req, payload) ==
    [req EXCEPT !.headers =
        req.headers
        @@ ("x-validated-device" :>
                <<[key |-> "X-Validated-Device",
                   value |-> IF Truthy(GetProp(payload, "device"))
                             THEN GetProp(payload, "device") ELSE JStr("unknown")]>>)
        @@ ("x-validated-timestamp" :>
                <<[key |-> "X-Validated-Timestamp",
                   value |-> JStr(NumberToString(GetProp(payload, "ts")))]>>)]

\* The two assignments to request.headers on the allow path.
WithValidatedHeaders(req, payload) ==
    LET device == GetProp(payload, "device")
    IN  [req EXCEPT !.headers =
            ("x-validated-device" :>
                <<[key |-> "X-Validated-Device",
                   value |-> IF Truthy(device) THEN device ELSE JStr("unknown")]>>)
            @@ ("x-validated-timestamp" :>
                <<[key |-> "X-Validated-Timestamp",
                   value |-> JStr(NumberToString(GetProp(payload, "ts")))]>>)
            @@ req.headers]

\* A handler without the `if (!payload)` return: a null payload goes on to
\* validatePayload.
AesDecideWithoutNullCheck(req, payload, clk) ==
    IF ~validatePayload(payload, clk).valid THEN
        Returned(EdgeResponse("403", "Forbidden", validatePayload(payload, clk).error))
    ELSE PassThrough(WithValidatedHeaders(req, payload))

\* The handler from the result of decryptToken on.
AesDecide(req, payload, clk) ==
    LET validation == validatePayload(payload, clk)
    IN  IF Falsy(payload) THEN
            Returned(EdgeResponse("403", "Forbidden", "Invalid or corrupted token"))
        ELSE IF ~validation.valid THEN
            Returned(EdgeResponse("403", "Forbidden", validation.error))
        ELSE PassThrough(WithValidatedHeaders(req, payload))

\* The handler after `await getSecret()`.
AesValidate(req, key, clk) ==
    LET authToken == EdgeHeader(req.headers, "x-auth-token")
    IN  IF Falsy(authToken) THEN
            Returned(EdgeResponse("403", "Forbidden",
                "Missing required header: X-Auth-Token"))
        ELSE AesDecide(req, decryptToken(authToken.s, key), clk)

(***************************************************************************)
(* The clients of src/unnamed/part_002 (test-requests.sh)                  *)
(***************************************************************************)
\* generate_signature: openssl dgst -sha256 -hmac "$SECRET_KEY"
generate_signature(secret, token) == createHmacDigestHex(JStr(secret), token).s

\* generate_aesgcm_token: nonce_hex ":" ciphertext_hex ":" tag_hex
SealWith(key, nonce, ciphertext) ==
    [nonce |-> nonce, ciphertext |-> ciphertext,
     tag |-> GcmTag(key, nonce, ciphertext)]

EncryptWith(key, nonce, plaintext) ==
    SealWith(key, nonce, GcmCrypt(key, nonce, Utf8Encode(plaintext)))

SealBytes(keyHex, nonce, plaintext) ==
    EncryptWith(HexDecode(keyHex), nonce, plaintext)

Envelope(e) ==
    HexEncode(e.nonce) \o ":" \o HexEncode(e.ciphertext) \o ":" \o HexEncode(e.tag)

generate_aesgcm_token(keyHex, nonce, plaintext) ==
    Envelope(SealBytes(keyHex, nonce, plaintext))

(***************************************************************************)
(* Inputs: what the provider may answer and what a client may send         *)
(***************************************************************************)
Programs == {"edge", "cff", "aes"}

\* SECRET_KEY and AES_KEY_HEX of test-requests.sh, and the values a rotation
\* replaces them with.
SECRET_KEY == "my-secret-key-2024"

RotatedSecret == "rotated-secret-2025"

AES_KEY_HEX == "0123456789abcdef0123456789abcdef0123456789abcdef0123456789abcdef"

RotatedAesKey == "fedcba9876543210fedcba9876543210fedcba9876543210fedcba9876543210"

\* A key that hex-decodes to two bytes.
ShortAesKey == "0123"

\* SecretString values Secrets Manager may hold: the record with the field,
\* a record without it, text that is no JSON, and the JSON null.
SecretStrings(p) ==
    IF p = "aes"
    THEN {"{\"aesKey\":\"" \o AES_KEY_HEX \o "\"}",
          "{\"aesKey\":\"" \o RotatedAesKey \o "\"}",
          "{\"aesKey\":\"" \o ShortAesKey \o "\"}",
          "{\"other\":\"x\"}", "not-json", "null"}
    ELSE {"{\"secretKey\":\"" \o SECRET_KEY \o "\"}",
          "{\"secretKey\":\"" \o RotatedSecret \o "\"}",
          "{\"other\":\"x\"}", "not-json", "null"}

\* Completions of `secretsClient.send(command)`.
SendOutcomes(p) ==
    {[kind |-> "reject"]}
    \cup {[kind |-> "ok", SecretString |-> JStr(t)] : t \in SecretStrings(p)}

\* Completions of `kvsHandle.get('bot-secret-key')`: the stored string, or a
\* rejection (the key is not in the store).
KvsOutcomes ==
    {[kind |-> "reject"]}
    \cup {[kind |-> "ok", value |-> JStr(t)] : t \in {SECRET_KEY, RotatedSecret}}

\* s with its letters a-f in upper case.
RECURSIVE UpperRange(_, _, _)
UpperRange(s, lo, hi) ==
    IF lo > hi THEN ""
    ELSE IF lo = hi
    THEN (IF Unhex(Ch(s, lo)) >= 10 THEN Ch(HexUpper, Unhex(Ch(s, lo)) + 1)
          ELSE Ch(s, lo))
    ELSE UpperRange(s, lo, (lo + hi) \div 2)
         \o UpperRange(s, ((lo + hi) \div 2) + 1, hi)

ToUpperHex(s) == UpperRange(s, 1, Len(s))

\* s with bit 3 of the character at position i flipped.
FlipCharBit(s, i) ==
    SubSeq(s, 1, i - 1) \o CharOfCode(BitXor(charCodeAt(s, i), 8))
    \o SubSeq(s, i + 1, Len(s))

\* X-Bot-Token values: window boundaries around the start of the clock, a
\* number followed by a letter, no number at all, the empty string.
TokenValues == {"700", "1301", "1000x", "abc", ""}

\* X-Bot-Signature values sent with a token.
SignatureValues(token) ==
    {generate_signature(SECRET_KEY, token),
     generate_signature(RotatedSecret, token),
     ToUpperHex(generate_signature(SECRET_KEY, token)),
     FlipCharBit(generate_signature(SECRET_KEY, token), 2 * DIGEST_BYTES),
     "invalid-signature-12345", ""}

\* A header map: `make` builds the entry of one header from its value.
HeaderMap(make(_, _), token, signature) ==
    (IF token = JNull THEN <<>> ELSE "x-bot-token" :> make("X-Bot-Token", token))
    @@ (IF signature = JNull THEN <<>>
        ELSE "x-bot-signature" :> make("X-Bot-Signature", signature))
    @@ ("host" :> make("Host", JStr("d123abc.cloudfront.net")))

EdgeEntry(key, v) == <<[key |-> key, value |-> v]>>

CffEntry(key, v) == [value |-> v]

HeaderPairs ==
    {<<JNull, JNull>>}
    \cup {<<JStr(t), JNull>> : t \in {"700"}}
    \cup {<<JNull, JStr(generate_signature(SECRET_KEY, "700"))>>}
    \cup UNION {{<<JStr(t), JStr(g)>> : g \in SignatureValues(t)} : t \in TokenValues}

EdgeRequests ==
    {[method |-> "GET", uri |-> "/lambda-edge/test.html",
      headers |-> HeaderMap(EdgeEntry, hp[1], hp[2])] : hp \in HeaderPairs}

CffRequests ==
    {[method |-> "GET", uri |-> "/cf-function/test.html",
      headers |-> HeaderMap(CffEntry, hp[1], hp[2])] : hp \in HeaderPairs}

\* A fresh 12-byte nonce (openssl rand -hex 12).
FreshNonce == [i \in 1..NONCE_BYTES |-> 16 + i]

\* A payload of the shape generate_aesgcm_token seals (ts, device, data), its
\* ts on the window boundary.
TestPayload == "{\"ts\":700,\"device\":\"d1\",\"data\":\"x\"}"

\* Payloads whose ts is no integer: a string, null, a boolean, an object, a
\* number with a fraction.
OddTsPayloads ==
    {"{\"ts\":\"700\"}", "{\"ts\":null}", "{\"ts\":true}", "{\"ts\":{}}",
     "{\"ts\":700.5}"}

\* Payloads whose device is the empty string, or no string.
OddDevicePayloads ==
    {"{\"ts\":700,\"device\":\"\"}", "{\"ts\":700,\"device\":5}"}

\* Payloads a holder of the key may seal: ts on either window boundary, no
\* ts, a payload that is no object, text that is no JSON.
PayloadTexts ==
    {TestPayload, "{\"ts\":1301}",
     "{\"device\":\"d1\"}", "5", "not json"}
    \cup OddTsPayloads \cup OddDevicePayloads

\* bytes with bit `bit` (0..7) of byte i flipped.
FlipBit(bytes, i, bit) ==
    [bytes EXCEPT ![i] = BitXor(bytes[i], 2 ^ bit)]

\* The bits flipped on the way: in the ciphertext, the first bit, every bit
\* of the byte that holds the last digit of ts, and the last bit; in the tag,
\* the first bit, one in the middle and the last.
TsDigitByte == 9

CiphertextFlips(n) ==
    {<<1, 0>>, <<n, 7>>} \cup {<<TsDigitByte, bit>> : bit \in 0..7}

TagFlips == {<<1, 0>>, <<TAG_BYTES \div 2, 3>>, <<TAG_BYTES, 7>>}

\* The envelope e with one bit of its ciphertext or of its tag flipped.
TamperedEnvelopes(e) ==
    {[e EXCEPT !.ciphertext = FlipBit(e.ciphertext, pb[1], pb[2])] :
        pb \in CiphertextFlips(Len(e.ciphertext))}
    \cup {[e EXCEPT !.tag = FlipBit(e.tag, pb[1], pb[2])] : pb \in TagFlips}

SealedEnvelopes ==
    {SealBytes(AES_KEY_HEX, FreshNonce, p) : p \in PayloadTexts}
    \cup {SealBytes(RotatedAesKey, FreshNonce, TestPayload)}

\* Tokens of a client that holds AES_KEY_HEX, changed in one bit on the way.
TamperedTokens ==
    {Envelope(e) : e \in TamperedEnvelopes(SealBytes(AES_KEY_HEX, FreshNonce, TestPayload))}

\* The envelope e written with a field too many, a nonce of 13 bytes, or a
\* tag of 15 bytes.
Misshapen(e) ==
    {Envelope(e) \o ":00",
     HexEncode(e.nonce) \o "00:" \o HexEncode(e.ciphertext) \o ":" \o HexEncode(e.tag),
     HexEncode(e.nonce) \o ":" \o HexEncode(e.ciphertext) \o ":"
        \o HexEncode(SubSeq(e.tag, 1, TAG_BYTES - 1))}

MisshapenTokens == Misshapen(SealBytes(AES_KEY_HEX, FreshNonce, TestPayload))

\* The envelope e with characters that are no hex digits after its nonce,
\* its ciphertext or its tag, or with one hex digit more in its ciphertext.
BadHex(e) ==
    {HexEncode(e.nonce) \o "zz:" \o HexEncode(e.ciphertext) \o ":" \o HexEncode(e.tag),
     HexEncode(e.nonce) \o ":" \o HexEncode(e.ciphertext) \o "zz:" \o HexEncode(e.tag),
     Envelope(e) \o "zz",
     HexEncode(e.nonce) \o ":" \o HexEncode(e.ciphertext) \o "0:" \o HexEncode(e.tag)}

BadHexTokens == BadHex(SealBytes(AES_KEY_HEX, FreshNonce, TestPayload))

\* X-Auth-Token values.
AuthTokenValues ==
    {Envelope(e) : e \in SealedEnvelopes}
    \cup TamperedTokens
    \cup MisshapenTokens
    \cup BadHexTokens
    \cup {"a:b", "a:b:c:d", "invalid:corrupted:token", ""}

\* X-Validated-Device (sent twice) and X-Validated-Timestamp as a client
\* writes them itself.
ForgedValidated ==
    ("x-validated-device" :>
        <<[key |-> "X-Validated-Device", value |-> JStr("admin")],
          [key |-> "X-Validated-Device", value |-> JStr("root")]>>)
    @@ ("x-validated-timestamp" :> EdgeEntry("X-Validated-Timestamp", JStr("9999999999")))

\* Tokens sent along with forged validated headers: two that a holder of the
\* key sealed (with and without a device) and one that is no envelope.
ForgingTokens ==
    {Envelope(SealBytes(AES_KEY_HEX, FreshNonce, p)) : p \in {TestPayload, "{\"ts\":1301}"}}
    \cup {"invalid:corrupted:token"}

AesRequests ==
    {[method |-> "GET", uri |-> "/aes-gcm/test.html",
      headers |-> ("host" :> EdgeEntry("Host", JStr("d123abc.cloudfront.net")))]}
    \cup {[method |-> "GET", uri |-> "/aes-gcm/test.html",
           headers |-> ("x-auth-token" :> EdgeEntry("X-Auth-Token", JStr(t)))
                       @@ ("host" :> EdgeEntry("Host", JStr("d123abc.cloudfront.net")))]
          : t \in AuthTokenValues}
    \cup {[method |-> "GET", uri |-> "/aes-gcm/test.html",
           headers |-> ("x-auth-token" :> EdgeEntry("X-Auth-Token", JStr(t)))
                       @@ ("host" :> EdgeEntry("Host", JStr("d123abc.cloudfront.net")))
                       @@ ForgedValidated]
          : t \in ForgingTokens}

RequestsOf(p) ==
    IF p = "edge" THEN EdgeRequests
    ELSE IF p = "cff" THEN CffRequests
    ELSE AesRequests

(***************************************************************************)
(* The state machine                                                       *)
(***************************************************************************)
NoRequest == [method |-> "", uri |-> "", headers |-> <<>>]

NoResponse == [kind |-> "none"]

\* No call of constantTimeCompare is being followed.
NoCall == [pc |-> "none"]

Init ==
    /\ program \in Programs
    /\ kvsHandle \in (IF program = "cff" THEN {"handle", "undefined"} ELSE {"none"})
    /\ clock = StartClock
    /\ ticks = 0
    /\ cachedSecret = JNull
    /\ cacheExpiry = 0
    /\ pc = [e \in Evals |-> "idle"]
    /\ request = [e \in Evals |-> NoRequest]
    /\ now = [e \in Evals |-> 0]
    /\ response = [e \in Evals |-> NoResponse]
    /\ secretKey = [e \in Evals |-> Undefined]
    /\ curTs = [e \in Evals |-> 0]
    /\ fetches = [e \in Evals |-> 0]
    /\ result = [e \in Evals |-> NoResult]
    /\ compare = NoCall

\* The handler after its await, on the completion `key` of that await.
Validate(req, key, clk) ==
    IF program = "edge" THEN
        IF IsThrown(key) THEN EdgeConfigurationError ELSE EdgeValidate(req, key, clk)
    ELSE IF program = "cff" THEN
        IF IsThrown(key) THEN CffConfigurationError ELSE CffValidate(req, key, clk)
    ELSE
        IF IsThrown(key) THEN AesConfigurationError ELSE AesValidate(req, key, clk)

\* The runtime invokes the handler with a request.  The handler runs to its
\* first await: in the Lambda@Edge programs getSecret reads the clock and the
\* cache and either returns the cached secret or sends the command; in the
\* CloudFront function kvsHandle.get is called (a TypeError, caught, when the
\* handle is undefined).
Invoke(e, req) ==
    /\ pc[e] = "idle"
    /\ request' = [request EXCEPT ![e] = req]
    /\ IF program = "cff" THEN
          /\ now' = now
          /\ IF kvsHandle = "undefined"
             THEN /\ pc' = [pc EXCEPT ![e] = "done"]
                  /\ result' = [result EXCEPT ![e] = CffConfigurationError]
                  /\ secretKey' = [secretKey EXCEPT ![e] = TypeError]
                  /\ fetches' = fetches
             ELSE /\ pc' = [pc EXCEPT ![e] = "kvs"]
                  /\ fetches' = [fetches EXCEPT ![e] = @ + 1]
                  /\ UNCHANGED <<result, secretKey>>
       ELSE
          /\ now' = [now EXCEPT ![e] = clock]
          /\ result' = result
          /\ IF CacheValid(cachedSecret, cacheExpiry, clock)
             THEN /\ pc' = [pc EXCEPT ![e] = "resume"]
                  /\ secretKey' = [secretKey EXCEPT ![e] = cachedSecret]
                  /\ fetches' = fetches
             ELSE /\ pc' = [pc EXCEPT ![e] = "fetching"]
                  /\ fetches' = [fetches EXCEPT ![e] = @ + 1]
                  /\ secretKey' = secretKey
    /\ UNCHANGED <<compare, program, kvsHandle, clock, ticks, cachedSecret, cacheExpiry,
                   response, curTs>>

\* `await secretsClient.send(command)` completes; getSecret runs to its end.
SendSettles(e, out) ==
    /\ pc[e] = "fetching"
    /\ LET r == getSecretAfterSend(out, SecretField, now[e], cachedSecret, cacheExpiry)
       IN  /\ cachedSecret' = r.cachedSecret
           /\ cacheExpiry' = r.cacheExpiry
           /\ secretKey' = [secretKey EXCEPT ![e] = r.ret]
    /\ response' = [response EXCEPT ![e] = out]
    /\ pc' = [pc EXCEPT ![e] = "resume"]
    /\ UNCHANGED <<compare, program, kvsHandle, clock, ticks, request, now, curTs,
                   fetches, result>>

\* A runtime in which a settled evaluation is resumed only while no other
\* evaluation's fetch is outstanding (its continuation queued behind them).
ResumeWhenAlone(e) ==
    /\ pc[e] = "resume"
    /\ \A o \in Evals \ {e} : pc[o] # "fetching"
    /\ LET r == Validate(request[e], secretKey[e], clock)
       IN  /\ result' = [result EXCEPT ![e] = r]
           /\ request' = [request EXCEPT ![e] =
                             IF r.kind = "request" THEN r.request ELSE @]
    /\ curTs' = [curTs EXCEPT ![e] = FloorSeconds(clock)]
    /\ pc' = [pc EXCEPT ![e] = "done"]
    /\ UNCHANGED <<compare, program, kvsHandle, clock, ticks, cachedSecret, cacheExpiry,
                   now, response, secretKey, fetches>>

\* `await getSecret()` completes; the Lambda@Edge handler runs to its return.
Resume(e) ==
    /\ pc[e] = "resume"
    /\ LET r == Validate(request[e], secretKey[e], clock)
       IN  /\ result' = [result EXCEPT ![e] = r]
           /\ request' = [request EXCEPT ![e] =
                             IF r.kind = "request" THEN r.request ELSE @]
    /\ curTs' = [curTs EXCEPT ![e] = FloorSeconds(clock)]
    /\ pc' = [pc EXCEPT ![e] = "done"]
    /\ UNCHANGED <<compare, program, kvsHandle, clock, ticks, cachedSecret, cacheExpiry,
                   now, response, secretKey, fetches>>

\* `await kvsHandle.get('bot-secret-key')` completes; the CloudFront function
\* runs to its return.
KvsSettles(e, out) ==
    /\ pc[e] = "kvs"
    /\ LET key == IF out.kind = "reject" THEN Thrown("KvsError") ELSE out.value
       IN  /\ secretKey' = [secretKey EXCEPT ![e] = key]
           /\ result' = [result EXCEPT ![e] = Validate(request[e], key, clock)]
    /\ response' = [response EXCEPT ![e] = out]
    /\ curTs' = [curTs EXCEPT ![e] = FloorSeconds(clock)]
    /\ pc' = [pc EXCEPT ![e] = "done"]
    /\ UNCHANGED <<compare, program, kvsHandle, clock, ticks, cachedSecret, cacheExpiry,
                   request, now, fetches>>

\* The invocation is over; its locals are gone.
Return(e) ==
    /\ pc[e] = "done"
    /\ pc' = [pc EXCEPT ![e] = "idle"]
    /\ request' = [request EXCEPT ![e] = NoRequest]
    /\ now' = [now EXCEPT ![e] = 0]
    /\ response' = [response EXCEPT ![e] = NoResponse]
    /\ secretKey' = [secretKey EXCEPT ![e] = Undefined]
    /\ curTs' = [curTs EXCEPT ![e] = 0]
    /\ fetches' = [fetches EXCEPT ![e] = 0]
    /\ result' = [result EXCEPT ![e] = NoResult]
    /\ UNCHANGED <<compare, program, kvsHandle, clock, ticks, cachedSecret, cacheExpiry>>

\* Time passes, while the instance is idle or awaits the remote provider: a
\* synchronous stretch of the handler is taken to last no time.
Tick(d) ==
    /\ ticks < MaxTicks
    /\ \A e \in Evals : pc[e] \in {"idle", "fetching", "kvs"}
    /\ ticks' = ticks + 1
    /\ clock' = clock + d
    /\ UNCHANGED <<compare, program, kvsHandle, cachedSecret, cacheExpiry, pc, request,
                   now, response, secretKey, curTs, fetches, result>>

\* One evaluation at a time: the invocations of one instance in sequence.
SeqEvals == {1}

Next ==
    \/ \E e \in SeqEvals, req \in RequestsOf(program) : Invoke(e, req)
    \/ \E e \in SeqEvals, out \in SendOutcomes(program) : SendSettles(e, out)
    \/ \E e \in SeqEvals, out \in KvsOutcomes : KvsSettles(e, out)
    \/ \E e \in SeqEvals : Resume(e)
    \/ \E e \in SeqEvals : Return(e)
    \/ \E d \in TickSteps : Tick(d)

Spec == Init /\ [][Next]_vars

(***************************************************************************)
(* Observing an evaluation                                                 *)
(***************************************************************************)
Scheme1 == program \in {"edge", "cff"}

\* The value of a request header as the running program reads it.
HeaderOf(req, name) ==
    IF program = "cff" THEN CffHeader(req.headers, name)
    ELSE EdgeHeader(req.headers, name)

\* `status: '403'` of a Lambda@Edge response, `statusCode: 403` of a
\* CloudFront function response, as text.
StatusText(resp) ==
    IF "statusCode" \in DOMAIN resp THEN NatToString(resp.statusCode)
    ELSE resp.status

ContentType(resp) ==
    IF "statusCode" \in DOMAIN resp THEN resp.headers["content-type"].value.s
    ELSE resp.headers["content-type"][1].value.s

BodyText(resp) ==
    IF "statusCode" \in DOMAIN resp THEN resp.body.data ELSE resp.body

\* The handler returned a generated response with this status.
Denied(r, status) == r.kind = "response" /\ StatusText(r.response) = status

\* The handler returned the request.
Allowed(r) == r.kind = "request"

\* The request carries every header its scheme requires, none of them empty.
RequiredPresent(req) ==
    IF Scheme1
    THEN Truthy(HeaderOf(req, "x-bot-token")) /\ Truthy(HeaderOf(req, "x-bot-signature"))
    ELSE Truthy(HeaderOf(req, "x-auth-token"))

\* The request lacks a header its scheme requires.
LacksHeader(req) ==
    IF Scheme1
    THEN HeaderOf(req, "x-bot-token") = JNull \/ HeaderOf(req, "x-bot-signature") = JNull
    ELSE HeaderOf(req, "x-auth-token") = JNull

\* The secret fetch of evaluation e failed: the remote call rejected (or, in
\* the CloudFront function, there is no handle to call), or what it returned
\* is no JSON text of an object.
FetchFailed(e) ==
    IF program = "cff"
    THEN kvsHandle = "undefined" \/ response[e].kind = "reject"
    ELSE \/ response[e].kind = "reject"
         \/ /\ response[e].kind = "ok"
            /\ JSONparse(response[e].SecretString).t \in {"throw", "null"}

(***************************************************************************)
(* C1  Scheme 1 soundness.  In the Lambda@Edge handler and in the          *)
(* CloudFront function, the handler returns the request only if both       *)
(* X-Bot-Token and X-Bot-Signature are present and non-empty, the integer  *)
(* parsed from the token is within 300 s of the handler's current time,    *)
(* and the signature is the hex HMAC of the token string under the secret  *)
(* the provider returned to this evaluation.                               *)
(***************************************************************************)
C1_Scheme1Soundness ==
    \A e \in Evals :
        (Scheme1 /\ pc[e] = "done" /\ Allowed(result[e])) =>
            LET token == HeaderOf(request[e], "x-bot-token")
                signature == HeaderOf(request[e], "x-bot-signature")
            IN  /\ IsString(token) /\ token.s # ""
                /\ IsString(signature) /\ signature.s # ""
                /\ ~IsNaN(parseInt(token.s))
                /\ Abs(1000 * curTs[e] - parseInt(token.s).milli) <= 1000 * 300
                /\ IsString(secretKey[e])
                /\ signature.s = generate_signature(secretKey[e].s, token.s)

\* A request was passed through by the Lambda@Edge handler under the rotated
\* secret.
C1_PassedThrough ==
    \E e \in Evals :
        /\ program = "edge" /\ pc[e] = "done" /\ Allowed(result[e])
        /\ secretKey[e] = JStr(RotatedSecret)

(***************************************************************************)
(* C2  Scheme 1 completeness and tamper rejection.  Whatever string the    *)
(* provider returned as secret and whatever the token string, a request    *)
(* signed with HMAC(secret, token) is never answered "Invalid signature"   *)
(* and is passed through when its timestamp is inside the window; any      *)
(* other signature is denied with 403.                                     *)
(***************************************************************************)
C2_Scheme1Completeness ==
    \A e \in Evals :
        (/\ Scheme1 /\ pc[e] = "done" /\ IsString(secretKey[e])
         /\ IsString(HeaderOf(request[e], "x-bot-token"))) =>
            LET token == HeaderOf(request[e], "x-bot-token").s
                signature == HeaderOf(request[e], "x-bot-signature")
                ts == parseInt(token)
            IN  IF /\ IsString(signature)
                   /\ signature.s = generate_signature(secretKey[e].s, token)
                THEN /\ ~(/\ Denied(result[e], "403")
                          /\ BodyText(result[e].response)
                                = JSONstringifyError("Invalid signature"))
                     /\ (/\ ~IsNaN(ts)
                         /\ Abs(1000 * curTs[e] - ts.milli) <= 1000 * 300)
                            => Allowed(result[e])
                ELSE Denied(result[e], "403")

\* The literal 'invalid-signature-12345' sent with a fresh token was denied,
\* and so was a correct signature with the last bit of its text changed.
C2_TamperDenied ==
    \E e \in Evals :
        /\ Scheme1 /\ pc[e] = "done" /\ secretKey[e] = JStr(SECRET_KEY)
        /\ HeaderOf(request[e], "x-bot-token") = JStr("700")
        /\ curTs[e] = 1000
        /\ HeaderOf(request[e], "x-bot-signature")
             = JStr(FlipCharBit(generate_signature(SECRET_KEY, "700"), 2 * DIGEST_BYTES))
        /\ Denied(result[e], "403")

(***************************************************************************)
(* C3  Scheme 2 soundness, round trip and tamper rejection.  The AES-GCM   *)
(* handler returns the request only if X-Auth-Token has a 12-byte nonce    *)
(* and a 16-byte tag, authenticates under the current 32-byte key, and     *)
(* its decrypted payload carries a ts within the window.  A token sealed   *)
(* under the current key decrypts to the payload that was sealed.  A       *)
(* token with one bit of its ciphertext or tag changed gets a 403.         *)
(***************************************************************************)
\* The payload the handler is to find in a token sealed from this text.
SealedPayload(text) ==
    IF IsThrown(JSONparse(JStr(text))) THEN JNull ELSE JSONparse(JStr(text))

\* What generate_aesgcm_token makes of each payload text under each key.
SealedTokens ==
    {[key |-> k, text |-> text,
      token |-> generate_aesgcm_token(k, FreshNonce, text)] :
        k \in {AES_KEY_HEX, RotatedAesKey}, text \in PayloadTexts}

C3_Scheme2Soundness ==
    \A e \in Evals :
        (program = "aes" /\ pc[e] = "done") =>
            /\ Allowed(result[e]) => IsString(secretKey[e])
            /\ IsString(secretKey[e]) =>
                LET token == HeaderOf(request[e], "x-auth-token")
                    parts == Split(token.s)
                    key == HexDecode(secretKey[e].s)
                    nonce == HexDecode(parts[1])
                    ciphertext == HexDecode(parts[2])
                    tag == HexDecode(parts[3])
                    plaintext == Utf8Decode(GcmCrypt(key, nonce, ciphertext))
                    ts == GetProp(JSONparse(JStr(plaintext)), "ts")
                IN  /\ Allowed(result[e]) =>
                        /\ IsString(token) /\ Len(parts) = 3
                        /\ Len(key) = 32 /\ Len(nonce) = 12 /\ Len(tag) = 16
                        /\ GcmTag(key, nonce, ciphertext) = tag
                        /\ ts.t = "number"
                        /\ Abs(1000 * curTs[e] - ts.milli) <= 1000 * 300
                    /\ \A sealed \in SealedTokens :
                         (/\ secretKey[e] = JStr(sealed.key)
                          /\ token = JStr(sealed.token)) =>
                            decryptToken(token.s, secretKey[e])
                                = SealedPayload(sealed.text)
                    /\ (IsString(token) /\ token.s \in TamperedTokens) =>
                            Denied(result[e], "403")

\* Under the key the token was sealed with, a token whose ciphertext had the
\* low bit of the last ts digit flipped (700 -> 701, still in the window)
\* was denied.
C3_FlippedDigitDenied ==
    \E e \in Evals :
        /\ program = "aes" /\ pc[e] = "done" /\ secretKey[e] = JStr(AES_KEY_HEX)
        /\ LET sealed == SealBytes(AES_KEY_HEX, FreshNonce, TestPayload)
           IN  HeaderOf(request[e], "x-auth-token")
                 = JStr(Envelope([sealed EXCEPT !.ciphertext =
                                    FlipBit(sealed.ciphertext, TsDigitByte, 0)]))
        /\ Denied(result[e], "403")

(***************************************************************************)
(* C4  Replay window boundary.  In all three handlers a timestamp that     *)
(* reaches the window check is refused exactly when it is more than 300 s  *)
(* away, on either side, from floor(Date.now() / 1000): 300 is accepted,   *)
(* 301 is refused.                                                         *)
(***************************************************************************)
Expired(r) ==
    /\ Denied(r, "403")
    /\ BodyText(r.response) = JSONstringifyError("Token expired or invalid timestamp")

C4_WindowBoundary ==
    \A e \in Evals :
        (pc[e] = "done" /\ ~IsThrown(secretKey[e]) /\ RequiredPresent(request[e])) =>
            IF Scheme1
            THEN LET ts == parseInt(HeaderOf(request[e], "x-bot-token").s)
                 IN  ~IsNaN(ts) =>
                        /\ (ts.milli \div 1000) - curTs[e] \in -300..300
                              => ~Expired(result[e])
                        /\ (ts.milli \div 1000) - curTs[e] \notin -300..300
                              => Expired(result[e])
            ELSE LET payload == decryptToken(HeaderOf(request[e], "x-auth-token").s,
                                             secretKey[e])
                     ts == GetProp(payload, "ts")
                 IN  (payload.t = "object" /\ ts.t = "number") =>
                        /\ ts.milli - 1000 * curTs[e] \in -300000..300000
                              => Allowed(result[e])
                        /\ ts.milli - 1000 * curTs[e] \notin -300000..300000
                              => Expired(result[e])

\* A token exactly 300 s old was passed through, by scheme 1.
C4_ExactlyAtTolerance ==
    \E e \in Evals :
        /\ Scheme1 /\ pc[e] = "done" /\ Allowed(result[e])
        /\ parseInt(HeaderOf(request[e], "x-bot-token").s).milli
             = 1000 * (curTs[e] - 300)

(***************************************************************************)
(* C5  Missing headers are always a 403.  A request that lacks a header    *)
(* its scheme requires is answered 403 with the missing-header body, in    *)
(* every state, a failing secret provider included.                        *)
(***************************************************************************)
MissingHeaderBody ==
    IF Scheme1
    THEN JSONstringifyError("Missing required headers: X-Bot-Token and X-Bot-Signature")
    ELSE JSONstringifyError("Missing required header: X-Auth-Token")

C5_MissingHeaderIs403 ==
    \A e \in Evals :
        (pc[e] = "done" /\ LacksHeader(request[e])) =>
            /\ Denied(result[e], "403")
            /\ BodyText(result[e].response) = MissingHeaderBody

(***************************************************************************)
(* C6  No exception escapes an evaluation: whatever the request and the    *)
(* provider's answer, the handler returns the request or a response.       *)
(***************************************************************************)
C6_NoExceptionEscapes ==
    \A e \in Evals : pc[e] = "done" => result[e].kind \in {"request", "response"}

(***************************************************************************)
(* C7  Generic denial.  Within one scheme, two requests that carry their   *)
(* required headers and are denied get the same response: the response of  *)
(* a denied evaluation is the one any other request denied under the same  *)
(* secret would get.                                                       *)
(***************************************************************************)
C7_GenericDenial ==
    \A e \in Evals :
        (/\ pc[e] = "done" /\ ~IsThrown(secretKey[e])
         /\ RequiredPresent(request[e]) /\ Denied(result[e], "403")) =>
            \A other \in RequestsOf(program) :
                (/\ RequiredPresent(other)
                 /\ Denied(Validate(other, secretKey[e], clock), "403")) =>
                    Validate(other, secretKey[e], clock).response = result[e].response

(***************************************************************************)
(* C8  Provider unavailability is a 500.  An evaluation whose secret fetch *)
(* failed returns status 500, Content-Type application/json and the body   *)
(* {"error":"Configuration error"}, whatever the request; no other         *)
(* evaluation returns a 500.                                               *)
(***************************************************************************)
C8_ProviderFailureIs500 ==
    \A e \in Evals :
        pc[e] = "done" =>
            /\ FetchFailed(e) <=> Denied(result[e], "500")
            /\ Denied(result[e], "500") =>
                  /\ ContentType(result[e].response) = "application/json"
                  /\ BodyText(result[e].response) = "{\"error\":\"Configuration error\"}"

\* A correctly signed fresh request got the 500 because the SecretString was
\* no JSON.
C8_UnparsableSecret ==
    \E e \in Evals :
        /\ program = "edge" /\ pc[e] = "done"
        /\ response[e] = [kind |-> "ok", SecretString |-> JStr("not-json")]
        /\ HeaderOf(request[e], "x-bot-token") = JStr("700")
        /\ HeaderOf(request[e], "x-bot-signature")
             = JStr(generate_signature(SECRET_KEY, "700"))
        /\ Denied(result[e], "500")

(***************************************************************************)
(* C9  Sequential cache behaviour of getSecret.  A call fetches at most    *)
(* once; it fetches only when the clock at its entry is at or after the    *)
(* stored expiry (0 for the empty cache); a call that does not fetch       *)
(* returns the stored secret; after a fetch that succeeded the stored      *)
(* expiry is the entry-time clock value plus 300000 ms.                    *)
(***************************************************************************)
C9_SequentialCache ==
    \A e \in SeqEvals :
        program # "cff" =>
            /\ fetches[e] <= 1
            /\ pc[e] = "fetching" => now[e] >= cacheExpiry
            /\ (pc[e] = "resume" /\ fetches[e] = 0) =>
                  /\ now[e] < cacheExpiry
                  /\ secretKey[e] = cachedSecret
            /\ (pc[e] = "resume" /\ fetches[e] = 1 /\ ~IsThrown(secretKey[e])) =>
                  /\ cachedSecret = secretKey[e]
                  /\ cacheExpiry = now[e] + 300000

(***************************************************************************)
(* C10  A fetch failure is never cached and never retried in place.  The   *)
(* step in which getSecret's fetch fails leaves cachedSecret and           *)
(* cacheExpiry as they were; the failing evaluation goes on to its return  *)
(* without another fetch; a call that finds no valid cache entry fetches.  *)
(***************************************************************************)
C10_FailureNotCached ==
    [][\A e \in Evals :
          /\ (pc[e] = "fetching" /\ pc'[e] = "resume" /\ IsThrown(secretKey'[e])) =>
                /\ cachedSecret' = cachedSecret
                /\ cacheExpiry' = cacheExpiry
                /\ fetches'[e] = 1
          /\ (pc[e] = "resume" /\ IsThrown(secretKey[e]) /\ pc'[e] # pc[e]) =>
                /\ pc'[e] = "done"
                /\ fetches'[e] = fetches[e]
                /\ cachedSecret' = cachedSecret
                /\ cacheExpiry' = cacheExpiry
          /\ (/\ program # "cff" /\ pc[e] = "idle" /\ pc'[e] # "idle"
              /\ ~(Truthy(cachedSecret) /\ clock < cacheExpiry)) =>
                /\ pc'[e] = "fetching"
                /\ fetches'[e] = 1
      ]_vars

\* A fetch failed while the cache held an expired secret, and the expired
\* entry is still there.
C10_FailedOverExpiredEntry ==
    \E e \in Evals :
        /\ pc[e] = "resume" /\ IsThrown(secretKey[e])
        /\ Truthy(cachedSecret)
        /\ cacheExpiry = StartClock + CACHE_TTL

(***************************************************************************)
(* Overlapping evaluations.  One Lambda@Edge instance may have a second    *)
(* invocation start while the first awaits the provider; both share the    *)
(* module variables cachedSecret and cacheExpiry.                          *)
(***************************************************************************)
\* The requests of the overlapping evaluations: one without the headers and
\* one a client holding the secret sends.
ConcHeaderPairs ==
    {<<JNull, JNull>>,
     <<JStr("700"), JStr(generate_signature(SECRET_KEY, "700"))>>}

ConcEdgeRequests ==
    {[method |-> "GET", uri |-> "/lambda-edge/test.html",
      headers |-> HeaderMap(EdgeEntry, hp[1], hp[2])] : hp \in ConcHeaderPairs}

ConcCffRequests ==
    {[method |-> "GET", uri |-> "/cf-function/test.html",
      headers |-> HeaderMap(CffEntry, hp[1], hp[2])] : hp \in ConcHeaderPairs}

ConcAesRequests ==
    {[method |-> "GET", uri |-> "/aes-gcm/test.html",
      headers |-> ("x-auth-token" :> EdgeEntry("X-Auth-Token", JStr(t)))
                  @@ ("host" :> EdgeEntry("Host", JStr("d123abc.cloudfront.net")))]
     : t \in {generate_aesgcm_token(AES_KEY_HEX, FreshNonce, TestPayload), ""}}

ConcRequests(p) ==
    IF p = "edge" THEN ConcEdgeRequests
    ELSE IF p = "cff" THEN ConcCffRequests
    ELSE ConcAesRequests

\* Completions of the send: a rejection, the secret, the secret after a
\* rotation.
ConcOutcomes(p) ==
    {[kind |-> "reject"]}
    \cup {[kind |-> "ok", SecretString |-> JStr(t)] :
             t \in (IF p = "aes"
                    THEN {"{\"aesKey\":\"" \o AES_KEY_HEX \o "\"}",
                          "{\"aesKey\":\"" \o RotatedAesKey \o "\"}"}
                    ELSE {"{\"secretKey\":\"" \o SECRET_KEY \o "\"}",
                          "{\"secretKey\":\"" \o RotatedSecret \o "\"}"})}

\* Time passes in steps of half of CACHE_TTL: the second one reaches the
\* expiry of an entry written before the first.
ConcTickSteps == {150000}

NextConc ==
    \/ \E e \in Evals, req \in ConcRequests(program) : Invoke(e, req)
    \/ \E e \in Evals, out \in ConcOutcomes(program) : SendSettles(e, out)
    \/ \E e \in Evals, out \in KvsOutcomes : KvsSettles(e, out)
    \/ \E e \in Evals : Resume(e)
    \/ \E e \in Evals : Return(e)
    \/ \E d \in ConcTickSteps : Tick(d)

SpecConc == Init /\ [][NextConc]_vars

\* What getSecret returns from the completion `resp` of its own send.
FetchedValue(resp, field) ==
    IF resp.kind = "reject" THEN Thrown("ProviderError")
    ELSE ReadSecret(JSONparse(resp.SecretString), field)

(***************************************************************************)
(* C11  No coalescing of concurrent misses.  In the Lambda@Edge handlers,  *)
(* every getSecret call that evaluates the cache check while the cache is  *)
(* empty or expired issues a fetch of its own, exactly one, whatever other *)
(* calls are in flight, and when its send completes it returns the value   *)
(* of that completion, not one another call fetched.                       *)
(***************************************************************************)
C11_NoCoalescing ==
    [][\A e \in Evals :
          /\ (/\ program # "cff"
              /\ pc[e] = "idle" /\ pc'[e] # "idle"
              /\ ~(Truthy(cachedSecret) /\ clock < cacheExpiry))
             => (pc'[e] = "fetching" /\ fetches'[e] = 1)
          /\ fetches'[e] <= 1
          /\ (pc[e] = "fetching" /\ pc'[e] = "resume")
             => secretKey'[e] = FetchedValue(response'[e], SecretField)]_vars

\* Two calls read the clock at the same instant, each fetched, and each came
\* back with a different secret: the second checked the cache before the
\* first wrote it.
C11_TwoMissesTwoFetches ==
    /\ program # "cff"
    /\ \A e \in Evals : pc[e] \in {"resume", "done"} /\ fetches[e] = 1
                        /\ response[e].kind = "ok" /\ IsString(secretKey[e])
    /\ now[1] = now[2]
    /\ secretKey[1] # secretKey[2]

\* The X-Auth-Token of a request, as the AES-GCM handler reads it.
AuthToken(req) == EdgeHeader(req.headers, "x-auth-token")

\* The token has three fields, of which the first decodes to 12 bytes and
\* the third to 16.
WellShaped(token) ==
    LET parts == Split(token)
    IN  /\ Len(parts) = 3
        /\ Len(HexDecode(parts[1])) = NONCE_BYTES
        /\ Len(HexDecode(parts[3])) = TAG_BYTES

\* Evaluation e of the AES-GCM handler is over and got as far as
\* decryptToken: getSecret returned and the header is there.
ReachedDecrypt(e) ==
    /\ program = "aes" /\ pc[e] = "done"
    /\ ~IsThrown(secretKey[e])
    /\ Truthy(AuthToken(request[e]))

(***************************************************************************)
(* C12  Envelope structure is checked before any decryption.  Whenever the *)
(* AES-GCM handler calls decryptToken, crypto.createDecipheriv is reached  *)
(* only for a token that splits on ':' into exactly three fields whose     *)
(* nonce decodes to 12 bytes and whose tag decodes to 16; every other      *)
(* token is answered 403 and no decipher is created for it.                *)
(***************************************************************************)
C12_StructureBeforeDecryption ==
    \A e \in SeqEvals :
        (ReachedDecrypt(e) /\ ~WellShaped(AuthToken(request[e]).s))
        => /\ Denied(result[e], "403")
           /\ ~decryptTokenTrace(AuthToken(request[e]).s, secretKey[e]).created

\* A token of three fields, nonce and ciphertext as sealed, with a tag one
\* byte short, was turned away under the key that sealed it.
C12_ShortTagDenied ==
    /\ ReachedDecrypt(1)
    /\ secretKey[1] = JStr(AES_KEY_HEX)
    /\ Len(Split(AuthToken(request[1]).s)) = 3
    /\ Len(HexDecode(Split(AuthToken(request[1]).s)[1])) = NONCE_BYTES
    /\ Len(HexDecode(Split(AuthToken(request[1]).s)[3])) = TAG_BYTES - 1
    /\ Denied(result[1], "403")

\* The text is a hex encoding: an even number of hex digits, nothing else.
IsHex(s) ==
    /\ Len(s) % 2 = 0
    /\ \A i \in 1..Len(s) : Unhex(Ch(s, i)) >= 0

\* One of the fields of the token is not a hex encoding.
HasInvalidHex(token) == \E k \in DOMAIN Split(token) : ~IsHex(Split(token)[k])

(***************************************************************************)
(* C13  Invalid hex encoding is a decode failure.  Every X-Auth-Token that *)
(* has a field with a character that is no hex digit, or with an odd       *)
(* number of hex digits, is answered 403 by the AES-GCM handler once it    *)
(* holds the key; a valid fresh envelope with such characters appended to  *)
(* a field is never passed through.                                        *)
(***************************************************************************)
C13_InvalidHexDenied ==
    \A e \in SeqEvals :
        (ReachedDecrypt(e) /\ HasInvalidHex(AuthToken(request[e]).s))
        => Denied(result[e], "403")

\* The number is an integer (numbers are held in thousandths).
IsInteger(v) == v.t = "number" /\ v.milli % 1000 = 0

\* The payload a client holding secretKey[e] sealed into the token of
\* evaluation e, where there is one.
AuthenticPayloads(e) ==
    {q.text : q \in {p \in SealedTokens :
                        /\ secretKey[e] = JStr(p.key)
                        /\ AuthToken(request[e]) = JStr(p.token)}}

(***************************************************************************)
(* C14  ts is a mandatory integer claim.  When the AES-GCM handler         *)
(* decrypts an authentic payload in which ts is absent or is no integer    *)
(* (a string, a boolean, null, an object, a number with a fraction), it    *)
(* answers 403 and does not return the request.                            *)
(***************************************************************************)
C14_TsMustBeInteger ==
    \A e \in SeqEvals :
        ReachedDecrypt(e) =>
            \A text \in AuthenticPayloads(e) :
                (/\ JSONparse(JStr(text)).t = "object"
                 /\ ~IsInteger(GetProp(JSONparse(JStr(text)), "ts")))
                => Denied(result[e], "403")

\* The value of a header the AES-GCM handler set on the request it returned.
ValidatedHeader(r, name) == EdgeHeader(r.request.headers, name)

(***************************************************************************)
(* C15  Derived headers on allow (scheme 2).  Every request the AES-GCM    *)
(* handler passes through carries x-validated-device, a string: the        *)
(* device string of the payload, or "unknown" when the payload has no      *)
(* device; and x-validated-timestamp, the decimal string of the payload's  *)
(* ts.                                                                     *)
(***************************************************************************)
C15_DerivedHeaders ==
    \A e \in SeqEvals :
        (ReachedDecrypt(e) /\ Allowed(result[e])) =>
            \A text \in AuthenticPayloads(e) :
                /\ IsString(ValidatedHeader(result[e], "x-validated-device"))
                /\ ValidatedHeader(result[e], "x-validated-device")
                   = (IF GetProp(JSONparse(JStr(text)), "device") = Undefined
                      THEN JStr("unknown")
                      ELSE GetProp(JSONparse(JStr(text)), "device"))
                /\ ValidatedHeader(result[e], "x-validated-timestamp")
                   = JStr(NumberToString(GetProp(JSONparse(JStr(text)), "ts")))

\* The body text is JSON for an object with the one key "error", a string.
IsErrorBody(text) ==
    /\ JSONparse(JStr(text)).t = "object"
    /\ DOMAIN JSONparse(JStr(text)).fields = {"error"}
    /\ IsString(GetProp(JSONparse(JStr(text)), "error"))

\* A generated response of the deny shape.
DenyShape(resp) ==
    /\ StatusText(resp) \in {"403", "500"}
    /\ ContentType(resp) = "application/json"
    /\ IsErrorBody(BodyText(resp))

(***************************************************************************)
(* C16  Deny response shape.  Every evaluation that does not end with the  *)
(* pass-through request ends with a response of status 403 or 500,         *)
(* Content-Type application/json and a body that is the JSON object with   *)
(* the single key "error"; the status is 500 only when the secret could    *)
(* not be obtained, and 403 for every other failure.                       *)
(***************************************************************************)
C16_DenyResponseShape ==
    \A e \in SeqEvals :
        (pc[e] = "done" /\ ~Allowed(result[e])) =>
            /\ result[e].kind = "response"
            /\ DenyShape(result[e].response)
            /\ Denied(result[e], "500") => FetchFailed(e)

(***************************************************************************)
(* C17  Signature case.  In the two HMAC handlers a request whose          *)
(* X-Bot-Signature is the correct HMAC-SHA256 digest of its token written  *)
(* in uppercase hex, and whose timestamp is inside the window, is passed   *)
(* through: the signature is compared as the 32 bytes it encodes.          *)
(***************************************************************************)
C17_UppercaseSignatureAllowed ==
    \A e \in SeqEvals :
        (/\ Scheme1 /\ pc[e] = "done" /\ IsString(secretKey[e])
         /\ IsString(HeaderOf(request[e], "x-bot-token"))
         /\ IsString(HeaderOf(request[e], "x-bot-signature"))
         /\ HeaderOf(request[e], "x-bot-signature").s
            = ToUpperHex(generate_signature(secretKey[e].s,
                                            HeaderOf(request[e], "x-bot-token").s))
         /\ ~IsNaN(parseInt(HeaderOf(request[e], "x-bot-token").s))
         /\ Abs(1000 * curTs[e] - parseInt(HeaderOf(request[e], "x-bot-token").s).milli)
            <= 1000 * TIMESTAMP_TOLERANCE)
        => Allowed(result[e])

\* The headers the AES-GCM handler assigns on the allow path.
ValidatedNames == {"x-validated-device", "x-validated-timestamp"}

\* Request `after` is request `before` but for the two validated headers.
SameButValidated(before, after) ==
    /\ after.method = before.method
    /\ after.uri = before.uri
    /\ DOMAIN after.headers = DOMAIN before.headers \cup ValidatedNames
    /\ \A h \in DOMAIN before.headers \ ValidatedNames :
          after.headers[h] = before.headers[h]

(***************************************************************************)
(* C18  Pass-through leaves the request unchanged.  In every step that     *)
(* ends an evaluation: when the handler allows, the request it returns is, *)
(* under scheme 1, the request it was invoked with, nothing added, removed *)
(* or altered, and under scheme 2 that request with only the headers       *)
(* x-validated-device and x-validated-timestamp set; when it denies (or    *)
(* fails), the request object is as it was.                                *)
(***************************************************************************)
C18_PassThroughFrame ==
    [][\A e \in Evals :
          (pc[e] \in {"resume", "kvs"} /\ pc'[e] = "done") =>
              IF Allowed(result'[e])
              THEN /\ request'[e] = result'[e].request
                   /\ IF Scheme1 THEN result'[e].request = request[e]
                      ELSE SameButValidated(request[e], result'[e].request)
              ELSE request'[e] = request[e]]_vars

\* The AES-GCM handler returned a request that has the two validated headers
\* next to the Host and X-Auth-Token it came with.
C18_AllowedWithBothHeaders ==
    /\ program = "aes" /\ pc[1] = "done" /\ Allowed(result[1])
    /\ DOMAIN result[1].request.headers
       = {"host", "x-auth-token"} \cup ValidatedNames
    /\ EdgeHeader(result[1].request.headers, "host") = JStr("d123abc.cloudfront.net")

(***************************************************************************)
(* C19  The KeyValueStore provider of the CloudFront function.  The        *)
(* function keeps no cache and no expiry: every evaluation that has a      *)
(* handle reads 'bot-secret-key' itself.  The read can fail: an evaluation *)
(* ends in a 500 response exactly when kvsHandle.get rejected or cf.kvs    *)
(* left no handle.                                                         *)
(***************************************************************************)
C19_KvsReadEveryTime ==
    program = "cff" =>
        /\ cachedSecret = JNull /\ cacheExpiry = 0
        /\ \A e \in SeqEvals :
              pc[e] = "done" =>
                  /\ fetches[e] = (IF kvsHandle = "handle" THEN 1 ELSE 0)
                  /\ Denied(result[e], "500") <=> FetchFailed(e)

\* A request with a fresh token and its correct signature got a 500 because
\* the read of the key rejected.
C19_KvsReadRejected ==
    /\ program = "cff" /\ kvsHandle = "handle" /\ pc[1] = "done"
    /\ response[1].kind = "reject"
    /\ HeaderOf(request[1], "x-bot-token") = JStr("700")
    /\ HeaderOf(request[1], "x-bot-signature")
       = JStr(generate_signature(SECRET_KEY, "700"))
    /\ Denied(result[1], "500")

\* C19 as stated: obtaining the secret never fails in the CloudFront
\* function, so none of its evaluations ends in a 500 response.
C19_StaticProviderNeverFails ==
    program = "cff" =>
        \A e \in SeqEvals : pc[e] = "done" => ~Denied(result[e], "500")

\* The token of the request is outside the window at the time of the check,
\* or is no number.
Stale(req, seconds) ==
    \/ IsNaN(parseInt(HeaderOf(req, "x-bot-token").s))
    \/ ExceedsTolerance(seconds, parseInt(HeaderOf(req, "x-bot-token").s))

\* No secret is asked for on behalf of a request that lacks a required
\* header.
NoFetchBeforeParse ==
    \A e \in SeqEvals :
        (pc[e] # "idle" /\ LacksHeader(request[e])) => fetches[e] = 0

\* Under scheme 1, a request whose signature is wrong and whose timestamp is
\* stale is turned away for its signature.
ProofBeforeReplay ==
    \A e \in SeqEvals :
        (/\ Scheme1 /\ pc[e] = "done" /\ IsString(secretKey[e])
         /\ RequiredPresent(request[e])
         /\ HeaderOf(request[e], "x-bot-signature").s
            # generate_signature(secretKey[e].s, HeaderOf(request[e], "x-bot-token").s)
         /\ Stale(request[e], curTs[e]))
        => /\ Denied(result[e], "403")
           /\ BodyText(result[e].response) = JSONstringifyError("Invalid signature")

(***************************************************************************)
(* C20  Order of stages in one evaluation.  The headers are parsed before  *)
(* the secret provider is consulted, so no fetch is issued for a request   *)
(* that lacks a required header; and the proof is verified before the      *)
(* replay window is looked at, so under scheme 1 a request with a stale    *)
(* timestamp and a wrong signature is rejected by the signature check.     *)
(***************************************************************************)
C20_StageOrder == NoFetchBeforeParse /\ ProofBeforeReplay

\* In this step the call of evaluation e completes its fetch with a value
\* and the cache holds that value with the expiry of that call.
WrittenBy(e) ==
    /\ pc[e] = "fetching" /\ pc'[e] = "resume"
    /\ ~IsThrown(FetchedValue(response'[e], SecretField))
    /\ cachedSecret' = FetchedValue(response'[e], SecretField)
    /\ cacheExpiry' = now[e] + CACHE_TTL

(***************************************************************************)
(* C21  Atomic cache update.  Between any two points at which another      *)
(* evaluation can run, the pair (cachedSecret, cacheExpiry) either stays   *)
(* as it is or becomes the secret of one successful fetch together with    *)
(* the expiry of that same call; starting from (null, 0), no evaluation    *)
(* ever finds the secret of one fetch with the expiry of another.          *)
(***************************************************************************)
C21_AtomicCacheUpdate ==
    [][\/ cachedSecret' = cachedSecret /\ cacheExpiry' = cacheExpiry
       \/ \E e \in Evals : WrittenBy(e)]_vars

\* Two overlapping calls that started at different clock values have both
\* stored: the cache holds the pair of the one that completed last, here the
\* call that started first.
C21_SecondWriteReplacedBoth ==
    /\ program # "cff"
    /\ \A e \in Evals : pc[e] \in {"resume", "done"} /\ fetches[e] = 1
                        /\ IsString(secretKey[e])
    /\ now[1] < now[2]
    /\ secretKey[1] # secretKey[2]
    /\ cachedSecret = secretKey[1]
    /\ cacheExpiry = now[1] + CACHE_TTL

\* In this step the call of evaluation e returns the cached secret without
\* a fetch.
CacheHit(e) == program # "cff" /\ pc[e] = "idle" /\ pc'[e] = "resume"

(***************************************************************************)
(* C22  Bounded staleness.  Under every interleaving of two overlapping    *)
(* calls: the cache is only ever written with the value of a fetch and     *)
(* the start time of that fetch's call plus CACHE_TTL, and a call that     *)
(* returns from the cache at clock value t returns the cached secret of a  *)
(* fetch whose call started later than t - CACHE_TTL.                      *)
(***************************************************************************)
C22_BoundedStaleness ==
    [][/\ (cachedSecret' # cachedSecret \/ cacheExpiry' # cacheExpiry)
          => \E w \in Evals : WrittenBy(w)
       /\ \A e \in Evals :
             CacheHit(e) =>
                 /\ fetches'[e] = 0
                 /\ secretKey'[e] = cachedSecret
                 /\ now'[e] = clock
                 /\ cacheExpiry - CACHE_TTL > clock - CACHE_TTL]_vars

\* A call returned the cached secret half a TTL after the call that fetched
\* it had started, while the other evaluation was waiting for its own fetch.
C22_HitWithinTtl ==
    /\ program # "cff"
    /\ pc[1] \in {"resume", "done"} /\ fetches[1] = 0
    /\ secretKey[1] = cachedSecret /\ IsString(cachedSecret)
    /\ now[1] = (cacheExpiry - CACHE_TTL) + 150000
    /\ pc[2] = "fetching"

(***************************************************************************)
(* Overlapping evaluations, with progress.  The event loop runs the        *)
(* continuation of every await whose promise has settled, and the request  *)
(* of evaluation 1 to the provider is answered (with a value or an         *)
(* error).  Nothing is assumed of the request of evaluation 2: it may      *)
(* stay unanswered for ever.                                               *)
(***************************************************************************)
OwnFetchReturns ==
    /\ WF_vars(\E out \in ConcOutcomes(program) : SendSettles(1, out))
    /\ WF_vars(\E out \in KvsOutcomes : KvsSettles(1, out))

\* The requests of these evaluations carry no token (an empty one under
\* scheme 2): what is decided does not matter here, only that it is.
LiveRequests(p) ==
    IF p = "aes"
    THEN {r \in ConcAesRequests : Falsy(EdgeHeader(r.headers, "x-auth-token"))}
    ELSE {r \in ConcRequests(p) : "x-bot-token" \notin DOMAIN r.headers}

NextLive ==
    \/ \E e \in Evals, req \in LiveRequests(program) : Invoke(e, req)
    \/ \E e \in Evals, out \in ConcOutcomes(program) : SendSettles(e, out)
    \/ \E e \in Evals, out \in KvsOutcomes : KvsSettles(e, out)
    \/ \E e \in Evals : Resume(e)
    \/ \E e \in Evals : Return(e)
    \/ \E d \in ConcTickSteps : Tick(d)

SpecLive ==
    /\ Init /\ [][NextLive]_vars
    /\ \A e \in Evals : WF_vars(Resume(e))
    /\ OwnFetchReturns

(***************************************************************************)
(* C23  Independence of evaluations.  An evaluation that found the secret  *)
(* in the cache, and an evaluation whose own fetch is answered, comes to   *)
(* its decision, whether or not the fetch of the other evaluation ever     *)
(* returns: a hung fetch holds up only the evaluation that issued it.      *)
(***************************************************************************)
C23_Independence == (pc[1] # "idle") ~> (pc[1] = "done")

\* Evaluation 1 started after evaluation 2 had sent its command, and has
\* its decision while evaluation 2 still waits for the answer.
C23_DecidedWhileOtherWaits ==
    /\ program # "cff"
    /\ pc[1] = "done" /\ result[1] # NoResult
    /\ pc[2] = "fetching"
    /\ now[2] < now[1]

\* The key the provider returned is a string that decodes to 32 bytes.
UsableKey(key) == IsString(key) /\ Len(HexDecode(key.s)) = KEY_BYTES

\* The token, well shaped, does not authenticate under the usable key, or
\* authenticates and decrypts to text that is no JSON.
FailsInDecipher(token, key) ==
    LET parts == Split(token)
        k == HexDecode(key.s)
        nonce == HexDecode(parts[1])
        ciphertext == HexDecode(parts[2])
        authTag == HexDecode(parts[3])
    IN  \/ GcmTag(k, nonce, ciphertext) # authTag
        \/ IsThrown(JSONparse(JStr(Utf8Decode(GcmCrypt(k, nonce, ciphertext)))))

\* A failure of the decryption stage: the envelope is misshapen, the key is
\* unusable, the tag does not authenticate, or the plaintext is no JSON.
DecryptionStageFailure(token, key) ==
    \/ ~WellShaped(token)
    \/ ~UsableKey(key)
    \/ FailsInDecipher(token, key)

InvalidOrCorrupted ==
    Returned(EdgeResponse("403", "Forbidden", "Invalid or corrupted token"))

(***************************************************************************)
(* C24  All decryption-stage failures of scheme 2 look the same.  When the *)
(* AES-GCM handler calls decryptToken and the token has a wrong field      *)
(* count, a nonce or tag of the wrong length, the key has the wrong        *)
(* length, the tag does not authenticate, or the decrypted text is no      *)
(* JSON, decryptToken returns null and the response is the one 403 with    *)
(* body {"error":"Invalid or corrupted token"}.                            *)
(***************************************************************************)
C24_UniformDecryptFailure ==
    \A e \in SeqEvals :
        (/\ ReachedDecrypt(e)
         /\ DecryptionStageFailure(AuthToken(request[e]).s, secretKey[e]))
        => /\ decryptToken(AuthToken(request[e]).s, secretKey[e]) = JNull
           /\ result[e] = InvalidOrCorrupted

\* A token that authenticates under the key but holds text that is no JSON
\* was answered with that response.
C24_NotJsonDenied ==
    /\ ReachedDecrypt(1) /\ UsableKey(secretKey[1])
    /\ WellShaped(AuthToken(request[1]).s)
    /\ "not json" \in AuthenticPayloads(1)
    /\ result[1] = InvalidOrCorrupted

(***************************************************************************)
(* constantTimeCompare, statement by statement.  The function is the same  *)
(* text in index.js and in bot-validator.js.  `compare` holds its          *)
(* arguments a and b, the locals i and result, the number of               *)
(* `result |= a.charCodeAt(i) ^ b.charCodeAt(i)` executed so far, and what *)
(* it returned.                                                            *)
(***************************************************************************)
MaxLen == 3

CompareAlphabet == {"0", "a", "A"}

RECURSIVE StringsOfLength(_)
StringsOfLength(n) ==
    IF n = 0 THEN {""}
    ELSE {s \o c : s \in StringsOfLength(n - 1), c \in CompareAlphabet}

CompareStrings == UNION {StringsOfLength(n) : n \in 0..MaxLen}

\* The call constantTimeCompare(a, b), about to execute its first statement.
CompareFrame(a, b) ==
    [pc |-> "entry", a |-> a, b |-> b, i |-> 0, result |-> 0, steps |-> 0,
     returned |-> "pending"]

InitCompare ==
    /\ program \in {"edge", "cff"}
    /\ kvsHandle = (IF program = "cff" THEN "handle" ELSE "none")
    /\ clock = StartClock
    /\ ticks = 0
    /\ cachedSecret = JNull
    /\ cacheExpiry = 0
    /\ pc = [e \in Evals |-> "idle"]
    /\ request = [e \in Evals |-> NoRequest]
    /\ now = [e \in Evals |-> 0]
    /\ response = [e \in Evals |-> NoResponse]
    /\ secretKey = [e \in Evals |-> Undefined]
    /\ curTs = [e \in Evals |-> 0]
    /\ fetches = [e \in Evals |-> 0]
    /\ result = [e \in Evals |-> NoResult]
    /\ compare \in {CompareFrame(a, b) : a \in CompareStrings, b \in CompareStrings}

\* An early exit: the loop also stops once a difference has been seen.
LoopUntilMismatch(i, length, acc) == i < length /\ acc = 0

\* `i < a.length`, the condition of the for loop.
LoopContinues(i, length, acc) == i < length

\* `if (a.length !== b.length) { return false; }  let result = 0;`
CompareLengths ==
    /\ compare.pc = "entry"
    /\ compare' = IF Len(compare.a) # Len(compare.b)
                  THEN [compare EXCEPT !.pc = "returned", !.returned = FALSE]
                  ELSE [compare EXCEPT !.pc = "loop", !.result = 0, !.i = 0]
    /\ UNCHANGED <<program, kvsHandle, clock, ticks, cachedSecret, cacheExpiry, pc,
                   request, now, response, secretKey, curTs, fetches, result>>

\* One pass of the loop body, and `i++`.
CompareIteration ==
    /\ compare.pc = "loop"
    /\ LoopContinues(compare.i, Len(compare.a), compare.result)
    /\ compare' = [compare EXCEPT
                      !.result = BitOr(@, BitXor(charCodeAt(compare.a, compare.i + 1),
                                                 charCodeAt(compare.b, compare.i + 1))),
                      !.i = @ + 1,
                      !.steps = @ + 1]
    /\ UNCHANGED <<program, kvsHandle, clock, ticks, cachedSecret, cacheExpiry, pc,
                   request, now, response, secretKey, curTs, fetches, result>>

\* The loop is left; `return result === 0`.
CompareReturn ==
    /\ compare.pc = "loop"
    /\ ~LoopContinues(compare.i, Len(compare.a), compare.result)
    /\ compare' = [compare EXCEPT !.pc = "returned", !.returned = (compare.result = 0)]
    /\ UNCHANGED <<program, kvsHandle, clock, ticks, cachedSecret, cacheExpiry, pc,
                   request, now, response, secretKey, curTs, fetches, result>>

NextCompare == CompareLengths \/ CompareIteration \/ CompareReturn

SpecCompare == InitCompare /\ [][NextCompare]_vars

(***************************************************************************)
(* C25  constantTimeCompare(a, b) returns true exactly when a and b have   *)
(* the same length and the same character code at every index.  When the   *)
(* lengths differ it returns false with no character compared; when they   *)
(* are equal it executes the XOR/OR statement exactly a.length times,      *)
(* whatever the contents, and nothing is returned before the loop is over. *)
(***************************************************************************)
C25_CompareSteps ==
    /\ compare.pc = "entry" => compare.steps = 0 /\ compare.returned = "pending"
    /\ compare.pc = "loop" =>
          /\ Len(compare.a) = Len(compare.b)
          /\ compare.steps = compare.i /\ compare.i <= Len(compare.a)
          /\ compare.returned = "pending"
    /\ compare.pc = "returned" =>
          /\ compare.returned
             = (/\ Len(compare.a) = Len(compare.b)
                /\ \A k \in 1..Len(compare.a) :
                      charCodeAt(compare.a, k) = charCodeAt(compare.b, k))
          /\ compare.steps
             = (IF Len(compare.a) # Len(compare.b) THEN 0 ELSE Len(compare.a))
          /\ compare.returned = constantTimeCompare(compare.a, compare.b)

\* Two strings of three characters that differ in their first character
\* were compared to the end: three steps, then false.
C25_MismatchAtFirstIndex ==
    /\ compare.pc = "returned"
    /\ Len(compare.a) = 3 /\ Len(compare.b) = 3
    /\ Ch(compare.a, 1) # Ch(compare.b, 1)
    /\ compare.steps = 3
    /\ compare.returned = FALSE

\* The same request as the other scheme-1 runtime presents it: Lambda@Edge
\* gives each header as an array of { key, value }, a CloudFront function as
\* one { value }.
TwinRequest(req) ==
    [req EXCEPT !.headers =
        [h \in DOMAIN req.headers |->
            IF program = "edge" THEN [value |-> req.headers[h][1].value]
            ELSE <<[key |-> h, value |-> req.headers[h].value]>>]]

\* What the other scheme-1 handler returns for a request, given what
\* obtaining the secret ended with and the clock.
TwinHandler(req, key, clk) ==
    IF program = "edge"
    THEN (IF IsThrown(key) THEN CffConfigurationError ELSE CffValidate(req, key, clk))
    ELSE (IF IsThrown(key) THEN EdgeConfigurationError ELSE EdgeValidate(req, key, clk))

\* The decision in a handler's result: pass, or the status and the body of
\* the response, or the exception.
Decision(r) ==
    IF r.kind = "request" THEN <<"pass">>
    ELSE IF r.kind = "response" THEN <<StatusText(r.response), BodyText(r.response)>>
    ELSE <<"throw", r.error>>

(***************************************************************************)
(* C26  The two scheme-1 implementations are equivalent.  Whatever the     *)
(* X-Bot-Token and X-Bot-Signature (each possibly absent), whether the     *)
(* secret was obtained (a string) or obtaining it failed, and whatever the *)
(* clock, the Lambda@Edge handler and the CloudFront function decide       *)
(* alike: both pass the request, or both deny with the same status number  *)
(* and the same error body.                                                *)
(***************************************************************************)
C26_Scheme1Equivalence ==
    \A e \in SeqEvals :
        (/\ Scheme1 /\ pc[e] = "done"
         /\ IsString(secretKey[e]) \/ IsThrown(secretKey[e]))
        => Decision(result[e])
           = Decision(TwinHandler(TwinRequest(request[e]), secretKey[e], clock))

\* The CloudFront function denied a request for its signature; so does the
\* Lambda@Edge handler on the same headers, secret and clock.
C26_BothDenySignature ==
    /\ program = "cff" /\ pc[1] = "done"
    /\ secretKey[1] = JStr(SECRET_KEY)
    /\ Decision(result[1]) = <<"403", JSONstringifyError("Invalid signature")>>
    /\ Decision(EdgeValidate(TwinRequest(request[1]), secretKey[1], clock))
       = <<"403", JSONstringifyError("Invalid signature")>>

\* A string made only of decimal digits, at least one.
DecimalString(s) ==
    /\ Len(s) > 0
    /\ \A i \in 1..Len(s) : Ch(s, i) \in Digits

(***************************************************************************)
(* C27  Scheme-1 token format.  X-Bot-Token must be a decimal integer      *)
(* string: every request that carries a token with any other character is  *)
(* denied with 403, even when X-Bot-Signature is the HMAC of that very     *)
(* token string under the secret.                                          *)
(***************************************************************************)
C27_TokenIsDecimal ==
    \A e \in SeqEvals :
        (/\ Scheme1 /\ pc[e] = "done"
         /\ IsString(secretKey[e])
         /\ IsString(HeaderOf(request[e], "x-bot-token"))
         /\ ~DecimalString(HeaderOf(request[e], "x-bot-token").s))
        => Denied(result[e], "403")

\* The values a client wrote into the validated headers of a request.
ClientValues(req) ==
    UNION {{req.headers[h][i].value : i \in 1..Len(req.headers[h])} :
              h \in ValidatedNames \cap DOMAIN req.headers}

\* headers[name] of a returned request is one entry with this value.
SingleValue(r, name, value) ==
    /\ name \in DOMAIN r.request.headers
    /\ Len(r.request.headers[name]) = 1
    /\ r.request.headers[name][1].value = value

(***************************************************************************)
(* C28  Validated headers cannot be forged through scheme 2.  In every     *)
(* step in which the AES-GCM handler passes a request through, the         *)
(* returned request has exactly one x-validated-device and exactly one     *)
(* x-validated-timestamp value, both computed from the payload decrypted   *)
(* from X-Auth-Token under the key (device or 'unknown', String(ts));      *)
(* whatever the client sent under these names is replaced.                 *)
(***************************************************************************)
C28_ValidatedNotForgeable ==
    [][\A e \in SeqEvals :
          (program = "aes" /\ pc[e] = "resume" /\ pc'[e] = "done"
           /\ Allowed(result'[e])) =>
              LET payload == decryptToken(AuthToken(request[e]).s, secretKey'[e])
                  device == GetProp(payload, "device")
              IN  /\ SingleValue(result'[e], "x-validated-device",
                         IF Truthy(device) THEN device ELSE JStr("unknown"))
                  /\ SingleValue(result'[e], "x-validated-timestamp",
                         JStr(NumberToString(GetProp(payload, "ts"))))
                  /\ \A h \in ValidatedNames :
                       \A i \in 1..Len(result'[e].request.headers[h]) :
                           result'[e].request.headers[h][i].value
                              \notin ClientValues(request[e])]_vars

\* A request that came with X-Validated-Device 'admin' and 'root' and a
\* sealed payload without device was passed through with 'unknown'.
C28_ForgedDeviceReplaced ==
    /\ program = "aes" /\ pc[1] = "done" /\ Allowed(result[1])
    /\ SingleValue(result[1], "x-validated-device", JStr("unknown"))
    /\ SingleValue(result[1], "x-validated-timestamp", JStr("1301"))
    /\ AuthToken(request[1])
       = JStr(Envelope(SealBytes(AES_KEY_HEX, FreshNonce, "{\"ts\":1301}")))

\* Both overlapping getSecret calls have fetched and stored, and the call of
\* evaluation e started after the other one.
StartedLast(e) ==
    /\ program # "cff"
    /\ \A o \in Evals : /\ pc[o] \in {"resume", "done"} /\ fetches[o] = 1
                        /\ IsString(secretKey[o])
    /\ \A o \in Evals \ {e} : now[o] < now[e]

C30_UnusableKeyDenies ==
    \A e \in SeqEvals :
        (/\ program = "aes" /\ pc[e] = "done"
         /\ ~IsThrown(secretKey[e]) /\ ~UsableKey(secretKey[e]))
        => /\ ~Allowed(result[e])
           /\ Truthy(AuthToken(request[e])) =>
                 /\ result[e] = InvalidOrCorrupted
                 /\ ~decryptTokenTrace(AuthToken(request[e]).s, secretKey[e]).created

\* A fresh token sealed under the 32-byte key was turned away while the
\* provider held a key of two bytes.
C30_ShortKeyDenied ==
    /\ ReachedDecrypt(1)
    /\ secretKey[1] = JStr(ShortAesKey)
    /\ AuthToken(request[1])
       = JStr(Envelope(SealBytes(AES_KEY_HEX, FreshNonce, TestPayload)))
    /\ result[1] = InvalidOrCorrupted
====
